---- MODULE Spec2Model ----
(***************************************************************************)
(* Model of the subscriber notification queue of uptime-kuma:              *)
(* server/notification-subscriber.js (SubscriberNotificationService).      *)
(*                                                                         *)
(* The notification_queue table is the sequence `queue` (row id = index).  *)
(* processQueue is an async function: every `await` is a point where other *)
(* callbacks run, so one call is a small process (a "drain") with a        *)
(* position pc, the beans R.find returned to it (batch) and the bean it is *)
(* working on (item).  R.store(bean) writes the bean over the row with the *)
(* bean's id.                                                              *)
(***************************************************************************)
EXTENDS Integers, Sequences, FiniteSets, Bags, TLC

VARIABLES
    queue,          \* notification_queue rows, in insertion (id) order
    now,            \* the clock R.isoDateTime() reads
    queueInterval,  \* SubscriberNotificationService.queueInterval (timer handle)
    timers,         \* interval timers that exist in the event loop
    drains,         \* the processQueue() calls in progress (a bag of them)
    sendCount,      \* per row id: the calls of sendEmail made for it so far
    subscriber,     \* subscriber rows, in insertion (id) order
    subscription,   \* subscription rows (R.trash deletes them)
    lastId,         \* the last id the subscription table gave out
    primaryBaseURL, \* setting("primaryBaseURL")
    notification,   \* notification rows (the configured channels), in id order
    calls           \* the calls of the handlers and composers, in order of arrival

\* the state the lifecycle handlers and the composers work on
lifeVars ==
    <<subscriber, subscription, lastId, primaryBaseURL, notification, calls>>

vars == <<queue, now, queueInterval, timers, drains, sendCount,
          subscriber, subscription, lastId, primaryBaseURL, notification,
          calls>>

----------------------------------------------------------------------------
(* Bounds of the model *)
MaxChannels == 2    \* notification rows (SpecSend)
MaxCalls  == 2      \* calls of sendEmail (SpecSend)
EnqueueRows == 2    \* rows ever enqueued (SpecEnqueue)
MaxRequests == 3    \* requests ever made, one after the other (SpecRouter)
AuditRequests == 2  \* requests and events ever made (SpecAudit)
CountRequests == 2  \* subscriber-count requests ever made (SpecCount)
HistoryRequests == 4 \* requests and events ever made (SpecHistory)
RaceRequests == 2   \* requests ever made, interleaved (SpecRace)
FanOut == 4         \* subscribers, each with one subscription (SpecIncident)
MaxSubscribers == 2 \* subscriber ids
ComposerRows == 2   \* subscription rows (SpecComposer)
MaxQueue  == 3      \* rows ever enqueued (SpecFind)
BatchRows == 2      \* rows ever enqueued (SpecBatch)
LifeRows  == 1      \* rows ever enqueued (Spec)
MaxTime   == 1      \* last clock value
MaxDrains == 2      \* processQueue() calls in progress at once
MaxTimers == 2      \* interval timers alive at once
BatchLimit == 2     \* stands for the LIMIT 50 of the pending query, scaled down

(* Program constants *)
AttemptsLimit == 5  \* query parameter: attempts < 5
MaxAttempts   == 5  \* if (item.attempts >= 5) status = "failed"

MaxSends == MaxAttempts + 1   \* sendCount saturates here

NULL    == 0        \* null / undefined
BaseURL == "https://status.example"  \* a primary base URL that is set
NoTime  == -1       \* sent_at not set
NoError == "none"   \* last_error not set

InvalidFormat == "Invalid message format"
SendError     == "Send error"        \* message of the error sendEmail raises
ParseError    == "Unexpected token"  \* message of the error JSON.parse raises
StoreError    == "Store error"       \* message of the error R.store raises

FallbackSubject == "Status Page Notification"
ConfirmSubject  == "Confirm your subscription"
IncidentSubject == "[INCIDENT] title"
UpdateSubject   == "[UPDATE] title"
ResolvedSubject == "[RESOLVED] title"
StatusSubject   == "Status Change: monitor is now Down"

\* the notification types the callers of queueNotification pass
NotificationTypes ==
    {"subscription_confirmation", "incident_created", "incident_update",
     "incident_resolved", "status_change"}

\* data.message of a payload: "" stands for a field that is absent or empty
\* (a payload without a message has none of the three)
Messages ==
    [to : {"", "a@x.com"}, subject : {"", ConfirmSubject, IncidentSubject},
     html : {"", "<p>"}]

NoMessage == [to |-> "", subject |-> "", html |-> ""]

\* what JSON.parse(item.data) gives: a message with to, subject and html;
\* an object without such a message; or no object at all (parse raises)
DataKinds == {"valid", "nomessage", "unparseable"}

TimerIds == 1..MaxTimers

SubscriberIds == 1..MaxSubscribers

Unset == ""         \* a setting, a body field or a text that is not there

\* email addresses of request bodies: with an @, and without
Emails == {"a@x.com", "b@x.com"}
BadEmails == {"", "ax.com"}

\* email.includes("@")
IncludesAt(email) == email \in Emails

\* slugs of request URLs; StatusPage.slugToID gives the id of the page, or
\* nothing for a slug no page has
Slugs == {"p1", "p2"}
SlugToID(slug) ==
    CASE slug = "p1" -> 1
      [] slug = "p2" -> 2
      [] OTHER -> NULL

\* a boolean field of the request body: true, false, or not sent
BodyFlags == {"true", "false", "undefined"}

\* generateUnsubscribeToken(), generateVerificationToken(): a token no
\* other row has
UnsubscribeToken(id) == id
VerificationToken(id) == id

Min(a, b) == IF a <= b THEN a ELSE b

NoBean == [id |-> 0, subscriber_id |-> 0, notification_type |-> "none",
           subject |-> "none", data |-> "valid", status |-> "pending",
           attempts |-> 0, last_error |-> NoError, sent_at |-> NoTime,
           created_at |-> 0]

\* a processQueue() call that has returned
Returned == [pc |-> "returned", batch |-> <<>>, item |-> NoBean]

\* the processQueue() calls in progress
Drains == BagToSet(drains)

\* the call d goes on as n, or is over
Continue(d, n) ==
    (drains (-) SetToBag({d})) (+)
        (IF n = Returned THEN EmptyBag ELSE SetToBag({n}))

\* R.isoDateTime() reads now; the clock never goes back, and the model lets it
\* advance when a row is enqueued (created_at is the only time the code compares)
Times == now..Min(now + 1, MaxTime)

----------------------------------------------------------------------------
(* getDefaultNotification *)

\* what JSON.parse(n.config) gives: an object of type smtp, an object of
\* another type, or no object at all (parse raises)
ConfigKinds == {"smtp", "telegram", "unparseable"}

\* null in place of a notification bean
NoNotification == [id |-> 0, is_default |-> FALSE, config |-> "none"]

ConfigError == "Unexpected token in config"  \* JSON.parse(config) raises

\* the for loop of lines 19-25 from row i on; a config that does not parse
\* raises, and the catch of line 29 returns null
RECURSIVE ScanSmtp(_, _)
ScanSmtp(ns, i) ==
    IF i > Len(ns) THEN NoNotification
    ELSE IF ns[i].config = "unparseable" THEN NoNotification
    ELSE IF ns[i].config = "smtp" THEN ns[i]
    ELSE ScanSmtp(ns, i + 1)

\* a lookup that never asks for the channel marked default
getDefaultNotification_ScanOnly(ns, findOneOk, findAllOk) ==
    IF ~findOneOk \/ ~findAllOk THEN NoNotification
    ELSE ScanSmtp(ns, 1)

\* lines 13-33: R.findOne(" is_default = ? "), then the scan of R.findAll;
\* a query that raises ends in the catch, which returns null
getDefaultNotification(ns, findOneOk, findAllOk) ==
    LET marked == {i \in DOMAIN ns : ns[i].is_default}
    IN  IF ~findOneOk THEN NoNotification
        ELSE IF marked # {}
             THEN ns[CHOOSE i \in marked : \A j \in marked : i <= j]
        ELSE IF ~findAllOk THEN NoNotification
        ELSE ScanSmtp(ns, 1)

GetDefaultFailed == "Failed to get default notification"  \* log of line 29

\* the for loop of lines 19-25 from row i on raises: it meets a config that
\* does not parse before it meets one of type smtp
RECURSIVE ScanRaises(_, _)
ScanRaises(ns, i) ==
    IF i > Len(ns) THEN FALSE
    ELSE IF ns[i].config = "unparseable" THEN TRUE
    ELSE IF ns[i].config = "smtp" THEN FALSE
    ELSE ScanRaises(ns, i + 1)

\* the catch block of lines 28-31 runs: R.findOne raised, or no channel is
\* marked default and R.findAll or the scan raised
Caught(ns, findOneOk, findAllOk) ==
    \/ ~findOneOk
    \/ /\ \A i \in DOMAIN ns : ~ns[i].is_default
       /\ (~findAllOk \/ ScanRaises(ns, 1))

\* a getDefaultNotification without its try block: what the queries and
\* JSON.parse raise reaches the caller
CallGetDefaultNotification_NoCatch(findOneOk, findAllOk) ==
    LET caught == Caught(notification, findOneOk, findAllOk)
    IN
    /\ Len(calls) < MaxCalls
    /\ calls' = Append(calls,
          [kind |-> "getDefaultNotification", pc |-> "done",
           bean |-> getDefaultNotification(notification, findOneOk,
                                           findAllOk),
           result |-> IF caught THEN "raised" ELSE "returned",
           log |-> "none"])
    /\ UNCHANGED <<queue, now, queueInterval, timers, drains, sendCount>>
    /\ UNCHANGED <<subscriber, subscription, lastId, primaryBaseURL,
                   notification>>

\* getDefaultNotification() is called: lines 13-33; it returns the bean, or
\* null from its catch block after the log of line 29
CallGetDefaultNotification(findOneOk, findAllOk) ==
    LET caught == Caught(notification, findOneOk, findAllOk)
    IN
    /\ Len(calls) < MaxCalls
    /\ calls' = Append(calls,
          [kind |-> "getDefaultNotification", pc |-> "done",
           bean |-> getDefaultNotification(notification, findOneOk,
                                           findAllOk),
           result |-> "returned",
           log |-> IF caught THEN GetDefaultFailed ELSE "none"])
    /\ UNCHANGED <<queue, now, queueInterval, timers, drains, sendCount>>
    /\ UNCHANGED <<subscriber, subscription, lastId, primaryBaseURL,
                   notification>>

----------------------------------------------------------------------------
(* sendEmail(to, subject, html): "false" when getDefaultNotification()     *)
(* gave no bean, "true" when Notification.send returned, "raise" when it   *)
(* threw.                                                                  *)
sendEmail(hasTransport, transportOk) ==
    IF ~hasTransport THEN "false"
    ELSE IF transportOk THEN "true"
    ELSE "raise"

\* the state processQueue and the processor work on, but for the queue and
\* the clock
processorVars == <<queueInterval, timers, drains, sendCount>>

\* sendEmail() is called: it runs up to await this.getDefaultNotification()
CallSendEmail ==
    /\ Len(calls) < MaxCalls
    /\ calls' = Append(calls,
                  [kind |-> "sendEmail", pc |-> "select",
                   bean |-> NoNotification, result |-> "none",
                   error |-> NoError, sends |-> 0])
    /\ UNCHANGED <<queue, now, processorVars>>
    /\ UNCHANGED <<subscriber, subscription, lastId, primaryBaseURL,
                   notification>>

\* lines 43-53: the bean getDefaultNotification() gave; without one sendEmail
\* returns false; with one, JSON.parse(notificationBean.config) runs inside
\* the try block, and lines 65-68 raise again what it raises
SelectTransport(c, findOneOk, findAllOk) ==
    LET bean == getDefaultNotification(notification, findOneOk, findAllOk)
    IN
    /\ calls[c].kind = "sendEmail"
    /\ calls[c].pc = "select"
    /\ calls' = [calls EXCEPT ![c] =
          IF bean = NoNotification
          THEN [@ EXCEPT !.pc = "done", !.result = sendEmail(FALSE, FALSE)]
          ELSE IF bean.config = "unparseable"
          THEN [@ EXCEPT !.bean = bean, !.pc = "done",
                         !.result = sendEmail(TRUE, FALSE),
                         !.error = ConfigError]
          ELSE [@ EXCEPT !.bean = bean, !.pc = "send"]]
    /\ UNCHANGED <<queue, now, processorVars>>
    /\ UNCHANGED <<subscriber, subscription, lastId, primaryBaseURL,
                   notification>>

\* lines 62-68: await Notification.send(...) returns, or raises
NotificationSend(c, ok) ==
    /\ calls[c].kind = "sendEmail"
    /\ calls[c].pc = "send"
    /\ calls' = [calls EXCEPT ![c] =
          [@ EXCEPT !.sends = @ + 1, !.pc = "done",
                    !.result = sendEmail(TRUE, ok),
                    !.error = IF ok THEN NoError ELSE SendError]]
    /\ UNCHANGED <<queue, now, processorVars>>
    /\ UNCHANGED <<subscriber, subscription, lastId, primaryBaseURL,
                   notification>>

\* a subject that is always taken from the message
Subject_NoFallback(message) == message.subject

\* data.message?.subject || "Status Page Notification"
Subject(message) ==
    IF message.subject # "" THEN message.subject ELSE FallbackSubject

\* JSON.stringify(data), by what JSON.parse and the test of line 513 find in
\* it later: a message with to, subject and html, or not
Stringify(message) ==
    IF message.to # "" /\ message.subject # "" /\ message.html # ""
    THEN "valid" ELSE "nomessage"

\* the payload a composer builds for a row of the kind
PayloadOf(kind) ==
    IF kind = "valid"
    THEN [to |-> "a@x.com", subject |-> IncidentSubject, html |-> "<p>"]
    ELSE NoMessage

(* queueNotification(subscriberId, type, data): the row R.store inserts;   *)
(* R.isoDateTime() reads t                                                  *)
queueNotification(subscriberId, type, message, t) ==
    /\ queue' = Append(queue,
                  [id |-> Len(queue) + 1, subscriber_id |-> subscriberId,
                   notification_type |-> type, subject |-> Subject(message),
                   data |-> Stringify(message), status |-> "pending",
                   attempts |-> 0, last_error |-> NoError, sent_at |-> NoTime,
                   created_at |-> t])
    /\ now' = t

----------------------------------------------------------------------------
(* processQueue *)

\* WHERE status = 'pending' AND attempts < 5
Eligible(q) ==
    {i \in DOMAIN q : q[i].status = "pending" /\ q[i].attempts < AttemptsLimit}

\* the query without its ORDER BY
FindPending_Unordered(q) ==
    LET E == Eligible(q)
        k == Min(Cardinality(E), BatchLimit)
        Ok(g) == \A i, j \in 1..k : i < j => g[i] # g[j]
    IN  {[i \in 1..k |-> q[g[i]]] : g \in {h \in [1..k -> E] : Ok(h)}}

\* the query without its test of the status
FindPending_AnyStatus(q) ==
    LET E == DOMAIN q
        k == Min(Cardinality(E), BatchLimit)
        Ok(g) == \A i, j \in 1..k : i < j =>
                        /\ g[i] # g[j]
                        /\ q[g[i]].created_at <= q[g[j]].created_at
    IN  {[i \in 1..k |-> q[g[i]]] : g \in {h \in [1..k -> E] : Ok(h)}}

\* ORDER BY created_at ASC LIMIT n: every result the query may give (rows
\* with equal created_at come in an order the database chooses)
FindPending(q) ==
    LET E == Eligible(q)
        k == Min(Cardinality(E), BatchLimit)
        Ok(g) == /\ \A i, j \in 1..k : i < j =>
                        /\ g[i] # g[j]
                        /\ q[g[i]].created_at <= q[g[j]].created_at
                 /\ \A r \in E \ {g[i] : i \in 1..k} :
                        \A i \in 1..k : q[g[i]].created_at <= q[r].created_at
    IN  {[i \in 1..k |-> q[g[i]]] : g \in {h \in [1..k -> E] : Ok(h)}}

\* a catch block that gives up one failure too late
CatchItem_FailsLate(item, msg) ==
    LET n == item.attempts + 1
    IN  [item EXCEPT !.attempts = n,
                     !.last_error = msg,
                     !.status = IF n > MaxAttempts THEN "failed" ELSE @]

\* the catch block of the loop body: lines 538-543
CatchItem(item, msg) ==
    LET n == item.attempts + 1
    IN  [item EXCEPT !.attempts = n,
                     !.last_error = msg,
                     !.status = IF n >= MaxAttempts THEN "failed" ELSE @]

\* a sent row without its time
DeliveredItem_NoTime(item, t) == [item EXCEPT !.status = "sent"]

\* sendEmail returned true: lines 521-522
DeliveredItem(item, t) == [item EXCEPT !.status = "sent", !.sent_at = t]

\* a branch that leaves the row to be sent again when no transport is set
NoTransportItem_StaysPending(item, t) == item

\* sendEmail returned false: lines 524-526
NoTransportItem(item, t) == [item EXCEPT !.status = "sent", !.sent_at = t]

\* a branch that counts the invalid payload as an attempt
InvalidItem_CountsAttempt(item) ==
    [item EXCEPT !.status = "failed", !.last_error = InvalidFormat,
                 !.attempts = @ + 1]

\* a branch that takes a payload without a message for delivered
InvalidItem_MarksSent(item) == [item EXCEPT !.status = "sent"]

\* no message with to, subject and html: lines 529-530
InvalidItem(item) ==
    [item EXCEPT !.status = "failed", !.last_error = InvalidFormat]

\* R.store(item)
StoreRow(q, item) == [q EXCEPT ![item.id] = item]

\* the for loop goes to the next bean, or processQueue returns
NextItem(d) ==
    LET rest == Tail(d.batch)
    IN  IF rest = <<>> THEN Returned
        ELSE [pc |-> "process", batch |-> rest, item |-> Head(rest)]

\* a call of processQueue() runs up to its first await
CallProcessQueue ==
    /\ BagCardinality(drains) < MaxDrains
    /\ drains' = drains (+)
                    SetToBag({[pc |-> "find", batch |-> <<>>, item |-> NoBean]})

\* await R.find(...): lines 498-507; a failing query ends in the outer catch
Find(d, ok) ==
    /\ d.pc = "find"
    /\ IF ok
       THEN \E b \in FindPending(queue) :
               drains' = Continue(d,
                   IF b = <<>> THEN Returned
                   ELSE [pc |-> "process", batch |-> b, item |-> Head(b)])
       ELSE drains' = Continue(d, Returned)
    /\ UNCHANGED <<queue, now, queueInterval, timers, sendCount>>
    /\ UNCHANGED lifeVars

\* lines 511-531 and, when they raise, 536-543
ProcessItem(d, hasTransport, transportOk) ==
    LET item == d.item
        sent == sendEmail(hasTransport, transportOk)
    IN
    /\ d.pc = "process"
    /\ CASE item.data = "unparseable" ->
              /\ drains' = Continue(d, [d EXCEPT
                     !.item = CatchItem(item, ParseError),
                     !.pc = "store545"])
              /\ UNCHANGED sendCount
         [] item.data = "nomessage" ->
              /\ drains' = Continue(d, [d EXCEPT
                     !.item = InvalidItem(item),
                     !.pc = "store533"])
              /\ UNCHANGED sendCount
         [] item.data = "valid" ->
              /\ sendCount' = [sendCount EXCEPT
                                 ![item.id] = Min(@ + 1, MaxSends)]
              /\ CASE sent = "raise" ->
                        drains' = Continue(d, [d EXCEPT
                            !.item = CatchItem(item, SendError),
                            !.pc = "store545"])
                   [] sent = "true" ->
                        drains' = Continue(d, [d EXCEPT
                            !.item = DeliveredItem(item, now),
                            !.pc = "store533"])
                   [] sent = "false" ->
                        drains' = Continue(d, [d EXCEPT
                            !.item = NoTransportItem(item, now),
                            !.pc = "store533"])
    /\ UNCHANGED <<queue, now, queueInterval, timers>>
    /\ UNCHANGED lifeVars

\* the loop body with the sendEmail of lines 514-518 as the notification
\* table decides it: false without a bean, a raise when the bean's config does
\* not parse or Notification.send raises, true when it returns
ProcessItemFromTable(d, findOneOk, findAllOk, transportOk) ==
    LET bean == getDefaultNotification(notification, findOneOk, findAllOk)
    IN  ProcessItem(d, bean # NoNotification,
                    transportOk /\ bean.config # "unparseable")

\* await R.store(item), line 533; when it raises, lines 536-543
Store533(d, ok) ==
    /\ d.pc = "store533"
    /\ IF ok
       THEN /\ queue' = StoreRow(queue, d.item)
            /\ drains' = Continue(d, NextItem(d))
       ELSE /\ drains' = Continue(d, [d EXCEPT
                   !.item = CatchItem(d.item, StoreError),
                   !.pc = "store545"])
            /\ UNCHANGED queue
    /\ UNCHANGED <<now, queueInterval, timers, sendCount>>
    /\ UNCHANGED lifeVars

\* a processQueue without its outer catch: the error of the write of line
\* 545 reaches the caller
Store545_Propagates(d, ok) ==
    /\ d.pc = "store545"
    /\ IF ok
       THEN /\ queue' = StoreRow(queue, d.item)
            /\ drains' = Continue(d, NextItem(d))
       ELSE /\ drains' = Continue(d, [d EXCEPT !.pc = "raised"])
            /\ UNCHANGED queue
    /\ UNCHANGED <<now, queueInterval, timers, sendCount>>
    /\ UNCHANGED lifeVars

\* await R.store(item), line 545; when it raises the loop is left for the
\* outer catch, lines 549-551
Store545(d, ok) ==
    /\ d.pc = "store545"
    /\ IF ok
       THEN /\ queue' = StoreRow(queue, d.item)
            /\ drains' = Continue(d, NextItem(d))
       ELSE /\ drains' = Continue(d, Returned)
            /\ UNCHANGED queue
    /\ UNCHANGED <<now, queueInterval, timers, sendCount>>
    /\ UNCHANGED lifeVars

----------------------------------------------------------------------------
(* POST /api/status-page/:slug/subscribe *)

\* the tables and the setting no router step touches
RouterFrame ==
    /\ UNCHANGED <<processorVars, primaryBaseURL, notification>>

\* the call c goes on as r
Resume(c, r) == calls' = [calls EXCEPT ![c] = r]

\* response.status(code).json(...) or .send(...): the handler is over
Respond(call, code, body) ==
    [kind |-> call.kind, pc |-> "done", status |-> code, body |-> body,
     log |-> "none"]

\* Subscriber.findByEmail(email): the id of the row, or nothing
FindByEmail(email) ==
    IF \E i \in DOMAIN subscriber : subscriber[i].email = email
    THEN CHOOSE i \in DOMAIN subscriber : subscriber[i].email = email
    ELSE NULL

\* Subscription.exists(subscriberId, statusPageId, componentId)
SubscriptionExists(subscriberId, statusPageId, componentId) ==
    \E s \in subscription :
        /\ s.subscriber_id = subscriberId
        /\ s.status_page_id = statusPageId
        /\ s.component_id = componentId

\* lines 27-41: the request arrives; the handler tests the email and runs up
\* to await StatusPage.slugToID(slug)
CallSubscribe(email, slug, componentId, notifyIncidents, notifyMaintenance, notifyStatusChanges) ==
    LET call == [kind |-> "subscribe", pc |-> "slugToID",
                 email |-> email, slug |-> slug, componentId |-> componentId,
                 notifyIncidents |-> notifyIncidents,
                 notifyMaintenance |-> notifyMaintenance,
                 notifyStatusChanges |-> notifyStatusChanges,
                 statusPageId |-> NULL, subscriber |-> NULL,
                 subscription |-> NULL, status |-> 0, body |-> "none",
                 log |-> "none"]
    IN
    /\ calls' = Append(calls,
                  IF email = Unset \/ ~IncludesAt(email)
                  THEN Respond(call, 400, "Valid email address is required")
                  ELSE call)
    /\ UNCHANGED <<queue, now, subscriber, subscription, lastId>>
    /\ RouterFrame

\* a handler that stores the subscriber before it knows the page
SubscribeSlugToID_CreatesFirst(c, ok) ==
    LET call == calls[c]
        statusPageId == SlugToID(call.slug)
        id == Len(subscriber) + 1
    IN
    /\ call.kind = "subscribe" /\ call.pc = "slugToID"
    /\ Resume(c, IF ~ok THEN Respond(call, 500, "error")
                 ELSE IF statusPageId = NULL
                 THEN Respond(call, 404, "Status page not found")
                 ELSE [call EXCEPT !.statusPageId = statusPageId,
                                   !.pc = "findByEmail"])
    /\ subscriber' = IF /\ ok /\ statusPageId = NULL
                        /\ \A i \in DOMAIN subscriber :
                               subscriber[i].email # call.email
                     THEN Append(subscriber,
                              [id |-> id, email |-> call.email,
                               unsubscribe_token |-> UnsubscribeToken(id)])
                     ELSE subscriber
    /\ UNCHANGED <<queue, now, subscription, lastId>>
    /\ RouterFrame

\* lines 41-50: the page id; 404 without one; then up to await
\* Subscriber.findByEmail(email)
SubscribeSlugToID(c, ok) ==
    LET call == calls[c]
        statusPageId == SlugToID(call.slug)
    IN
    /\ call.kind = "subscribe" /\ call.pc = "slugToID"
    /\ Resume(c, IF ~ok THEN Respond(call, 500, "error")
                 ELSE IF statusPageId = NULL
                 THEN Respond(call, 404, "Status page not found")
                 ELSE [call EXCEPT !.statusPageId = statusPageId,
                                   !.pc = "findByEmail"])
    /\ UNCHANGED <<queue, now, subscriber, subscription, lastId>>
    /\ RouterFrame

\* lines 50-56: the subscriber found, or a new bean up to await R.store
SubscribeFindByEmail(c, ok) ==
    LET call == calls[c]
        found == FindByEmail(call.email)
    IN
    /\ call.kind = "subscribe" /\ call.pc = "findByEmail"
    /\ Resume(c, IF ~ok THEN Respond(call, 500, "error")
                 ELSE IF found = NULL
                 THEN [call EXCEPT !.pc = "storeSubscriber"]
                 ELSE [call EXCEPT !.subscriber = found, !.pc = "exists"])
    /\ UNCHANGED <<queue, now, subscriber, subscription, lastId>>
    /\ RouterFrame

\* a subscriber table that takes any row
EmailIsFree_Unchecked(email) == TRUE

\* the subscriber table takes no second row with an email it holds
EmailIsFree(email) ==
    \A i \in DOMAIN subscriber : subscriber[i].email # email

\* lines 56-62: await R.store(subscriber) inserts the row, or raises; then up
\* to await Subscription.exists(...)
SubscribeStoreSubscriber(c, ok) ==
    LET call == calls[c]
        id == Len(subscriber) + 1
    IN
    /\ call.kind = "subscribe" /\ call.pc = "storeSubscriber"
    /\ IF ok /\ EmailIsFree(call.email)
       THEN /\ subscriber' = Append(subscriber,
                   [id |-> id, email |-> call.email,
                    unsubscribe_token |-> UnsubscribeToken(id)])
            /\ Resume(c, [call EXCEPT !.subscriber = id, !.pc = "exists"])
       ELSE /\ Resume(c, Respond(call, 500, "error"))
            /\ UNCHANGED subscriber
    /\ UNCHANGED <<queue, now, subscription, lastId>>
    /\ RouterFrame

\* a handler that stores the subscription without looking for one
SubscribeExists_NoCheck(c, ok) ==
    LET call == calls[c]
    IN
    /\ call.kind = "subscribe" /\ call.pc = "exists"
    /\ Resume(c, IF ~ok THEN Respond(call, 500, "error")
                 ELSE [call EXCEPT !.pc = "storeSubscription"])
    /\ UNCHANGED <<queue, now, subscriber, subscription, lastId>>
    /\ RouterFrame

\* lines 62-86: the answer of Subscription.exists; "already subscribed" when
\* there is such a row; else the new bean up to await R.store(subscription)
SubscribeExists(c, ok) ==
    LET call == calls[c]
        existingSub == SubscriptionExists(call.subscriber, call.statusPageId,
                                          call.componentId)
    IN
    /\ call.kind = "subscribe" /\ call.pc = "exists"
    /\ Resume(c, IF ~ok THEN Respond(call, 500, "error")
                 ELSE IF existingSub
                 THEN Respond(call, 200, "alreadySubscribed")
                 ELSE [call EXCEPT !.pc = "storeSubscription"])
    /\ UNCHANGED <<queue, now, subscriber, subscription, lastId>>
    /\ RouterFrame

\* notifyIncidents !== false
NotFalse(flag) == flag # "false"

\* notifyStatusChanges || false
OrFalse(flag) == flag = "true"

\* lines 86-92 and 105-111: await R.store(subscription) inserts the row, or
\* raises; then sendSubscriptionConfirmation up to await setting(...)
SubscribeStoreSubscription(c, ok) ==
    LET call == calls[c]
        id == lastId + 1
    IN
    /\ call.kind = "subscribe" /\ call.pc = "storeSubscription"
    /\ IF ok
       THEN /\ subscription' = subscription \cup
                   {[id |-> id, subscriber_id |-> call.subscriber,
                     status_page_id |-> call.statusPageId,
                     component_id |-> call.componentId,
                     notify_incidents |-> NotFalse(call.notifyIncidents),
                     notify_maintenance |-> NotFalse(call.notifyMaintenance),
                     notify_status_changes |->
                         OrFalse(call.notifyStatusChanges),
                     verified |-> FALSE,
                     verification_token |-> VerificationToken(id)]}
            /\ lastId' = id
            /\ Resume(c, [call EXCEPT !.subscription = id, !.pc = "setting"])
       ELSE /\ Resume(c, Respond(call, 500, "error"))
            /\ UNCHANGED <<subscription, lastId>>
    /\ UNCHANGED <<queue, now, subscriber>>
    /\ RouterFrame

\* a composer that builds its links from a base URL that is not set
ConfirmationSetting_NoCheck(c, ok) ==
    LET call == calls[c]
    IN
    /\ call.kind = "subscribe" /\ call.pc = "setting"
    /\ Resume(c, IF ok
                 THEN [call EXCEPT !.pc = "queue"]
                 ELSE [Respond(call, 200, "needsVerification")
                           EXCEPT !.log = "Failed to queue verification email"])
    /\ UNCHANGED <<queue, now, subscriber, subscription, lastId>>
    /\ RouterFrame

\* a composer that skips the confirmation when the base URL is not set, as
\* the event composers do
ConfirmationSetting_Skips(c, ok) ==
    LET call == calls[c]
    IN
    /\ call.kind = "subscribe" /\ call.pc = "setting"
    /\ Resume(c, IF ok /\ primaryBaseURL # Unset
                 THEN [call EXCEPT !.pc = "queue"]
                 ELSE IF ok
                 THEN [Respond(call, 200, "needsVerification")
                           EXCEPT !.log = "Verification email queued"]
                 ELSE [Respond(call, 200, "needsVerification")
                           EXCEPT !.log = "Failed to queue verification email"])
    /\ UNCHANGED <<queue, now, subscriber, subscription, lastId>>
    /\ RouterFrame

\* sendSubscriptionConfirmation, lines 108-145: the base URL; without one it
\* raises, and the handler (lines 94-103) logs that and answers all the same;
\* with one, the message up to await R.store(queue) in queueNotification
ConfirmationSetting(c, ok) ==
    LET call == calls[c]
    IN
    /\ call.kind = "subscribe" /\ call.pc = "setting"
    /\ Resume(c, IF ok /\ primaryBaseURL # Unset
                 THEN [call EXCEPT !.pc = "queue"]
                 ELSE [Respond(call, 200, "needsVerification")
                           EXCEPT !.log = "Failed to queue verification email"])
    /\ UNCHANGED <<queue, now, subscriber, subscription, lastId>>
    /\ RouterFrame

\* a handler without the try block of lines 90-97: the error of the composer
\* reaches the outer catch
ConfirmationQueue_Propagates(c, ok, t) ==
    LET call == calls[c]
        message == [to |-> call.email, subject |-> ConfirmSubject,
                    html |-> "<p>"]
    IN
    /\ call.kind = "subscribe" /\ call.pc = "queue"
    /\ IF ok
       THEN /\ queueNotification(call.subscriber,
                                 "subscription_confirmation", message, t)
            /\ Resume(c, [Respond(call, 200, "needsVerification")
                              EXCEPT !.log = "Verification email queued"])
       ELSE /\ Resume(c, [Respond(call, 500, "error")
                              EXCEPT !.log =
                                  "Failed to queue verification email"])
            /\ UNCHANGED <<queue, now>>
    /\ UNCHANGED <<subscriber, subscription, lastId>>
    /\ RouterFrame

\* queueNotification lines 86-96 and the handler's lines 93-103: the row is
\* inserted, or R.store raises and the handler logs it; the answer is the same
ConfirmationQueue(c, ok, t) ==
    LET call == calls[c]
        message == [to |-> call.email, subject |-> ConfirmSubject,
                    html |-> "<p>"]
    IN
    /\ call.kind = "subscribe" /\ call.pc = "queue"
    /\ IF ok
       THEN /\ queueNotification(call.subscriber,
                                 "subscription_confirmation", message, t)
            /\ Resume(c, [Respond(call, 200, "needsVerification")
                              EXCEPT !.log = "Verification email queued"])
       ELSE /\ Resume(c, [Respond(call, 200, "needsVerification")
                              EXCEPT !.log =
                                  "Failed to queue verification email"])
            /\ UNCHANGED <<queue, now>>
    /\ UNCHANGED <<subscriber, subscription, lastId>>
    /\ RouterFrame

----------------------------------------------------------------------------
(* GET /api/status-page/:slug/verify/:token *)

\* Subscription.findByVerificationToken(token): the id of the row, or nothing
FindByVerificationToken(token) ==
    IF \E s \in subscription : s.verification_token = token
    THEN (CHOOSE s \in subscription : s.verification_token = token).id
    ELSE NULL

\* a verify() that verifies every subscription of the subscriber
Verify_WholeAccount(rows, id) ==
    LET owners == {s.subscriber_id : s \in {r \in rows : r.id = id}}
    IN  {IF s.subscriber_id \in owners THEN [s EXCEPT !.verified = TRUE]
         ELSE s : s \in rows}

\* subscription.verify(): the row, if it is still there, is stored verified
Verify(rows, id) ==
    {IF s.id = id THEN [s EXCEPT !.verified = TRUE] ELSE s : s \in rows}

\* lines 119-123: the request arrives; the handler runs up to await
\* Subscription.findByVerificationToken(token)
CallVerify(token) ==
    /\ calls' = Append(calls,
                  [kind |-> "verify", pc |-> "findByToken", token |-> token,
                   subscription |-> NULL, subscriber |-> NULL,
                   statusPageId |-> NULL, status |-> 0, body |-> "none",
                   log |-> "none"])
    /\ UNCHANGED <<queue, now, subscriber, subscription, lastId>>
    /\ RouterFrame

\* response.status(code).send(...) of the verify handler: the handler is over;
\* `stored` tells whether subscription.verify() had returned, and the
\* subscriber and the page are those of the bean the handler held
VerifyAnswer(call, code, body, stored) ==
    [kind |-> "verify", pc |-> "done", status |-> code, body |-> body,
     log |-> "none", subscriber |-> call.subscriber,
     statusPageId |-> call.statusPageId, stored |-> stored]

\* the subscription bean with this id
BeanOf(id) == CHOOSE s \in subscription : s.id = id

\* a handler that takes a verified subscription's token for an unknown one
VerifyFind_OnlyOnce(c, ok) ==
    LET call == calls[c]
        found == FindByVerificationToken(call.token)
    IN
    /\ call.kind = "verify" /\ call.pc = "findByToken"
    /\ Resume(c, IF ~ok THEN VerifyAnswer(call, 500, "Error", FALSE)
                 ELSE IF found = NULL
                         \/ \E s \in subscription : s.id = found /\ s.verified
                 THEN VerifyAnswer(call, 404, "Verification Failed", FALSE)
                 ELSE [call EXCEPT !.subscription = found,
                                   !.subscriber = BeanOf(found).subscriber_id,
                                   !.statusPageId = BeanOf(found).status_page_id,
                                   !.pc = "verify"])
    /\ UNCHANGED <<queue, now, subscriber, subscription, lastId>>
    /\ RouterFrame

\* lines 123-137: the subscription found, or 404; then up to await
\* subscription.verify()
VerifyFind(c, ok) ==
    LET call == calls[c]
        found == FindByVerificationToken(call.token)
    IN
    /\ call.kind = "verify" /\ call.pc = "findByToken"
    /\ Resume(c, IF ~ok THEN VerifyAnswer(call, 500, "Error", FALSE)
                 ELSE IF found = NULL
                 THEN VerifyAnswer(call, 404, "Verification Failed", FALSE)
                 ELSE [call EXCEPT !.subscription = found,
                                   !.subscriber = BeanOf(found).subscriber_id,
                                   !.statusPageId = BeanOf(found).status_page_id,
                                   !.pc = "verify"])
    /\ UNCHANGED <<queue, now, subscriber, subscription, lastId>>
    /\ RouterFrame

\* lines 137-139: subscription.verify() stores the row, or raises; then up to
\* await R.load("subscriber", ...)
VerifyStore(c, ok) ==
    LET call == calls[c]
    IN
    /\ call.kind = "verify" /\ call.pc = "verify"
    /\ IF ok
       THEN /\ subscription' = Verify(subscription, call.subscription)
            /\ Resume(c, [call EXCEPT !.pc = "loadSubscriber"])
       ELSE /\ Resume(c, VerifyAnswer(call, 500, "Error", FALSE))
            /\ UNCHANGED subscription
    /\ UNCHANGED <<queue, now, subscriber, lastId>>
    /\ RouterFrame

\* lines 139-151: the subscriber is loaded for the log line, and the page
\* "Email Verified" is sent
VerifyLoad(c, ok) ==
    LET call == calls[c]
    IN
    /\ call.kind = "verify" /\ call.pc = "loadSubscriber"
    /\ Resume(c, IF ok THEN VerifyAnswer(call, 200, "Email Verified", TRUE)
                 ELSE VerifyAnswer(call, 500, "Error", TRUE))
    /\ UNCHANGED <<queue, now, subscriber, subscription, lastId>>
    /\ RouterFrame

----------------------------------------------------------------------------
(* GET /api/status-page/:slug/unsubscribe/:token *)

\* Subscriber.findByUnsubscribeToken(token): the id of the row, or nothing
FindByUnsubscribeToken(token) ==
    IF \E i \in DOMAIN subscriber : subscriber[i].unsubscribe_token = token
    THEN CHOOSE i \in DOMAIN subscriber :
             subscriber[i].unsubscribe_token = token
    ELSE NULL

\* Subscription.getBySubscriber(subscriberId): the ids of the rows
GetBySubscriber(subscriberId) ==
    {s.id : s \in {r \in subscription : r.subscriber_id = subscriberId}}

\* lines 172-176: the request arrives (the handler reads the token of the
\* URL, never its slug); it runs up to await
\* Subscriber.findByUnsubscribeToken(token)
CallUnsubscribe(slug, token) ==
    /\ calls' = Append(calls,
                  [kind |-> "unsubscribe", pc |-> "findByToken",
                   slug |-> slug, token |-> token,
                   subscriber |-> NULL, rest |-> {},
                   status |-> 0, body |-> "none", log |-> "none"])
    /\ UNCHANGED <<queue, now, subscriber, subscription, lastId>>
    /\ RouterFrame

\* lines 176-191: the subscriber found, or 404; then up to await
\* Subscription.getBySubscriber(subscriber.id)
UnsubscribeFind(c, ok) ==
    LET call == calls[c]
        found == FindByUnsubscribeToken(call.token)
    IN
    /\ call.kind = "unsubscribe" /\ call.pc = "findByToken"
    /\ Resume(c, IF ~ok THEN Respond(call, 500, "Error")
                 ELSE IF found = NULL
                 THEN Respond(call, 404, "Unsubscribe Failed")
                 ELSE [call EXCEPT !.subscriber = found,
                                   !.pc = "getBySubscriber"])
    /\ UNCHANGED <<queue, now, subscriber, subscription, lastId>>
    /\ RouterFrame

\* a handler that deletes the subscriptions of the page of the URL only
UnsubscribeGet_ThisPage(c, ok) ==
    LET call == calls[c]
        subscriptions ==
            {s.id : s \in {r \in subscription :
                              /\ r.subscriber_id = call.subscriber
                              /\ r.status_page_id = SlugToID(call.slug)}}
    IN
    /\ call.kind = "unsubscribe" /\ call.pc = "getBySubscriber"
    /\ Resume(c, IF ~ok THEN Respond(call, 500, "Error")
                 ELSE IF subscriptions = {}
                 THEN Respond(call, 200, "Unsubscribed")
                 ELSE [call EXCEPT !.rest = subscriptions, !.pc = "trash"])
    /\ UNCHANGED <<queue, now, subscriber, subscription, lastId>>
    /\ RouterFrame

\* lines 191-193: the subscriptions to delete; with none the page
\* "Unsubscribed" is sent (lines 196-207); else up to the first await R.trash
UnsubscribeGet(c, ok) ==
    LET call == calls[c]
        subscriptions == GetBySubscriber(call.subscriber)
    IN
    /\ call.kind = "unsubscribe" /\ call.pc = "getBySubscriber"
    /\ Resume(c, IF ~ok THEN Respond(call, 500, "Error")
                 ELSE IF subscriptions = {}
                 THEN Respond(call, 200, "Unsubscribed")
                 ELSE [call EXCEPT !.rest = subscriptions, !.pc = "trash"])
    /\ UNCHANGED <<queue, now, subscriber, subscription, lastId>>
    /\ RouterFrame

\* an unsubscribe that also takes the subscriber's unsubscribe token away
UnsubscribeTrash_ClearsToken(c, id, ok) ==
    LET call == calls[c]
    IN
    /\ call.kind = "unsubscribe" /\ call.pc = "trash"
    /\ id \in call.rest
    /\ IF ok
       THEN /\ subscription' = {s \in subscription : s.id # id}
            /\ subscriber' = [subscriber EXCEPT
                                 ![call.subscriber].unsubscribe_token = NULL]
            /\ Resume(c, IF call.rest = {id}
                         THEN Respond(call, 200, "Unsubscribed")
                         ELSE [call EXCEPT !.rest = @ \ {id}])
       ELSE /\ Resume(c, Respond(call, 500, "Error"))
            /\ UNCHANGED <<subscription, subscriber>>
    /\ UNCHANGED <<queue, now, lastId>>
    /\ RouterFrame

\* an unsubscribe that also deletes the queue rows of the subscriber that are
\* still pending
UnsubscribeTrash_PurgesQueue(c, id, ok) ==
    LET call == calls[c]
        keep(row) == ~(row.subscriber_id = call.subscriber /\ row.status = "pending")
    IN
    /\ call.kind = "unsubscribe" /\ call.pc = "trash"
    /\ id \in call.rest
    /\ IF ok
       THEN /\ subscription' = {s \in subscription : s.id # id}
            /\ queue' = SelectSeq(queue, keep)
            /\ Resume(c, IF call.rest = {id}
                         THEN Respond(call, 200, "Unsubscribed")
                         ELSE [call EXCEPT !.rest = @ \ {id}])
       ELSE /\ Resume(c, Respond(call, 500, "Error"))
            /\ UNCHANGED <<subscription, queue>>
    /\ UNCHANGED <<now, subscriber, lastId>>
    /\ RouterFrame

\* lines 192-207: await R.trash(subscription) deletes one row of the list
\* (in the order of the list, which the query chooses), or raises; after the
\* last one the page "Unsubscribed" is sent
UnsubscribeTrash(c, id, ok) ==
    LET call == calls[c]
    IN
    /\ call.kind = "unsubscribe" /\ call.pc = "trash"
    /\ id \in call.rest
    /\ IF ok
       THEN /\ subscription' = {s \in subscription : s.id # id}
            /\ Resume(c, IF call.rest = {id}
                         THEN Respond(call, 200, "Unsubscribed")
                         ELSE [call EXCEPT !.rest = @ \ {id}])
       ELSE /\ Resume(c, Respond(call, 500, "Error"))
            /\ UNCHANGED subscription
    /\ UNCHANGED <<queue, now, subscriber, lastId>>
    /\ RouterFrame

----------------------------------------------------------------------------
(* GET /api/status-page/:slug/subscriber-count *)

\* the request arrives: lines 226-228
CallSubscriberCount(slug) ==
    /\ calls' = Append(calls,
                  [kind |-> "count", pc |-> "slugToID", slug |-> slug,
                   count |-> 0, status |-> 0, body |-> "none",
                   log |-> "none"])
    /\ UNCHANGED <<queue, now, subscriber, subscription, lastId>>
    /\ RouterFrame

\* response.json({ ok: true, count }) of lines 240-243, and the answers
\* without a count
CountAnswer(call, code, body, count) ==
    [kind |-> "count", pc |-> "done", slug |-> call.slug, count |-> count,
     status |-> code, body |-> body,
     log |-> IF code = 500 THEN "subscriber" ELSE "none"]

\* lines 230-236: await StatusPage.slugToID(slug); 404 for a slug no page
\* has; a raise ends in the catch of lines 245-251
CountSlugToID(c, ok) ==
    LET call == calls[c]
    IN
    /\ call.kind = "count" /\ call.pc = "slugToID"
    /\ Resume(c, IF ~ok THEN CountAnswer(call, 500, "Error", 0)
                 ELSE IF SlugToID(call.slug) = NULL
                 THEN CountAnswer(call, 404, "Status page not found", 0)
                 ELSE [call EXCEPT !.pc = "count"])
    /\ UNCHANGED <<queue, now, subscriber, subscription, lastId>>
    /\ RouterFrame

\* a count of the verified subscriptions only
CountRows_VerifiedOnly(c, ok) ==
    LET call == calls[c]
        rows == {s \in subscription :
                    /\ s.status_page_id = SlugToID(call.slug)
                    /\ s.verified}
    IN
    /\ call.kind = "count" /\ call.pc = "count"
    /\ Resume(c, IF ~ok THEN CountAnswer(call, 500, "Error", 0)
                 ELSE CountAnswer(call, 200, "count", Cardinality(rows)))
    /\ UNCHANGED <<queue, now, subscriber, subscription, lastId>>
    /\ RouterFrame

\* a count of the subscribers of the page
CountRows_Subscribers(c, ok) ==
    LET call == calls[c]
        rows == {s.subscriber_id : s \in {r \in subscription :
                    r.status_page_id = SlugToID(call.slug)}}
    IN
    /\ call.kind = "count" /\ call.pc = "count"
    /\ Resume(c, IF ~ok THEN CountAnswer(call, 500, "Error", 0)
                 ELSE CountAnswer(call, 200, "count", Cardinality(rows)))
    /\ UNCHANGED <<queue, now, subscriber, subscription, lastId>>
    /\ RouterFrame

\* lines 238-243: await R.count("subscription", " status_page_id = ? ",
\* [statusPageId]) and the answer; a raise ends in the catch of lines 245-251
CountRows(c, ok) ==
    LET call == calls[c]
        rows == {s \in subscription :
                    s.status_page_id = SlugToID(call.slug)}
    IN
    /\ call.kind = "count" /\ call.pc = "count"
    /\ Resume(c, IF ~ok THEN CountAnswer(call, 500, "Error", 0)
                 ELSE CountAnswer(call, 200, "count", Cardinality(rows)))
    /\ UNCHANGED <<queue, now, subscriber, subscription, lastId>>
    /\ RouterFrame

----------------------------------------------------------------------------
(* sendIncidentNotification(incidentId), and with it                      *)
(* sendIncidentUpdateNotification and sendIncidentResolvedNotification,    *)
(* which run the same steps (lines 246-313 and 320-384) with another       *)
(* subject and notification type                                           *)

\* the incident table: the status page of an incident, or nothing for an id
\* no incident has; incident 3 is one whose status page is gone
IncidentIds == {1, 2, 3}
IncidentPage(incidentId) ==
    IF incidentId \in IncidentIds THEN incidentId ELSE NULL

\* the status_page table
StatusPageIds == {1, 2}

\* a test that forgets the verification
IsEligible_Unverified(s) == s.notify_incidents

\* the two tests of lines 188-194
IsEligible(s) == s.notify_incidents /\ s.verified

\* Subscription.getByStatusPage(statusPageId): the rows, by id
RECURSIVE ById(_)
ById(rows) ==
    IF rows = {} THEN <<>>
    ELSE LET first == CHOOSE s \in rows : \A o \in rows : s.id <= o.id
         IN  <<first>> \o ById(rows \ {first})

GetByStatusPage(statusPageId) ==
    ById({s \in subscription : s.status_page_id = statusPageId})

\* the for loop of lines 187-194 passes the beans that fail its tests
RECURSIVE SkipIneligible(_)
SkipIneligible(beans) ==
    IF beans = <<>> THEN <<>>
    ELSE IF IsEligible(Head(beans)) THEN beans
    ELSE SkipIneligible(Tail(beans))

\* message.subject of the composers: lines 210, 284, 358 and 451
SubjectOf(type) ==
    CASE type = "incident_created"  -> IncidentSubject
      [] type = "incident_update"   -> UpdateSubject
      [] type = "incident_resolved" -> ResolvedSubject
      [] OTHER                      -> StatusSubject

\* the function returns, or raises
Return(call) == [call EXCEPT !.pc = "done", !.result = "returned"]
Raise(call, msg) ==
    [call EXCEPT !.pc = "done", !.result = "raised", !.error = msg]

\* the loop goes on with the beans left, or the function returns (line 232)
Loop(call, beans) ==
    LET rest == SkipIneligible(beans)
    IN  IF rest = <<>> THEN Return([call EXCEPT !.rest = <<>>])
        ELSE [call EXCEPT !.rest = rest, !.pc = "loadSubscriber"]

\* lines 162-164: the call runs up to await R.load("incident", incidentId)
CallSendIncidentNotification(incidentId) ==
    /\ calls' = Append(calls,
                  [kind |-> "incident", type |-> "incident_created",
                   pc |-> "loadIncident",
                   incidentId |-> incidentId, statusPageId |-> NULL,
                   rest |-> <<>>, queuedCount |-> 0, result |-> "none",
                   error |-> NoError])
    /\ UNCHANGED <<queue, now, subscriber, subscription, lastId>>
    /\ RouterFrame

\* sendIncidentUpdateNotification, lines 246-248, and
\* sendIncidentResolvedNotification, lines 320-322: the same steps as
\* sendIncidentNotification with another subject and notification type, and
\* without its count of the rows queued
CallSendIncidentUpdateNotification(incidentId) ==
    /\ calls' = Append(calls,
                  [kind |-> "incident", type |-> "incident_update",
                   pc |-> "loadIncident",
                   incidentId |-> incidentId, statusPageId |-> NULL,
                   rest |-> <<>>, queuedCount |-> 0, result |-> "none",
                   error |-> NoError])
    /\ UNCHANGED <<queue, now, subscriber, subscription, lastId>>
    /\ RouterFrame

CallSendIncidentResolvedNotification(incidentId) ==
    /\ calls' = Append(calls,
                  [kind |-> "incident", type |-> "incident_resolved",
                   pc |-> "loadIncident",
                   incidentId |-> incidentId, statusPageId |-> NULL,
                   rest |-> <<>>, queuedCount |-> 0, result |-> "none",
                   error |-> NoError])
    /\ UNCHANGED <<queue, now, subscriber, subscription, lastId>>
    /\ RouterFrame

\* lines 164-170: the incident, or "Incident not found"; then up to await
\* R.load("status_page", ...)
IncidentLoad(c, ok) ==
    LET call == calls[c]
        page == IncidentPage(call.incidentId)
    IN
    /\ call.kind = "incident" /\ call.pc = "loadIncident"
    /\ Resume(c, IF ~ok THEN Raise(call, StoreError)
                 ELSE IF page = NULL THEN Raise(call, "Incident not found")
                 ELSE [call EXCEPT !.statusPageId = page, !.pc = "loadPage"])
    /\ UNCHANGED <<queue, now, subscriber, subscription, lastId>>
    /\ RouterFrame

\* a composer that goes on without the status page
IncidentLoadPage_NoCheck(c, ok) ==
    LET call == calls[c]
    IN
    /\ call.kind = "incident" /\ call.pc = "loadPage"
    /\ Resume(c, IF ~ok THEN Raise(call, StoreError)
                 ELSE [call EXCEPT !.pc = "setting"])
    /\ UNCHANGED <<queue, now, subscriber, subscription, lastId>>
    /\ RouterFrame

\* lines 170-175: the status page, or "Status page not found"; then up to
\* await setting("primaryBaseURL")
IncidentLoadPage(c, ok) ==
    LET call == calls[c]
    IN
    /\ call.kind = "incident" /\ call.pc = "loadPage"
    /\ Resume(c, IF ~ok THEN Raise(call, StoreError)
                 ELSE IF call.statusPageId \notin StatusPageIds
                 THEN Raise(call, "Status page not found")
                 ELSE [call EXCEPT !.pc = "setting"])
    /\ UNCHANGED <<queue, now, subscriber, subscription, lastId>>
    /\ RouterFrame

\* a composer that builds its links from a base URL that is not set
IncidentSetting_NoCheck(c, ok) ==
    LET call == calls[c]
    IN
    /\ call.kind = "incident" /\ call.pc = "setting"
    /\ Resume(c, IF ~ok THEN Raise(call, StoreError)
                 ELSE [call EXCEPT !.pc = "getByStatusPage"])
    /\ UNCHANGED <<queue, now, subscriber, subscription, lastId>>
    /\ RouterFrame

\* lines 175-182: without a base URL the function returns; with one it runs
\* up to await Subscription.getByStatusPage(...)
IncidentSetting(c, ok) ==
    LET call == calls[c]
    IN
    /\ call.kind = "incident" /\ call.pc = "setting"
    /\ Resume(c, IF ~ok THEN Raise(call, StoreError)
                 ELSE IF primaryBaseURL = Unset THEN Return(call)
                 ELSE [call EXCEPT !.pc = "getByStatusPage"])
    /\ UNCHANGED <<queue, now, subscriber, subscription, lastId>>
    /\ RouterFrame

\* lines 182-196: the subscriptions of the page; the loop runs up to await
\* R.load("subscriber", ...) for the first bean that passes its tests
IncidentGetByStatusPage(c, ok) ==
    LET call == calls[c]
    IN
    /\ call.kind = "incident" /\ call.pc = "getByStatusPage"
    /\ Resume(c, IF ~ok THEN Raise(call, StoreError)
                 ELSE Loop(call, GetByStatusPage(call.statusPageId)))
    /\ UNCHANGED <<queue, now, subscriber, subscription, lastId>>
    /\ RouterFrame

\* lines 196-225: the subscriber of the bean, the message, up to await
\* R.store(queue) in queueNotification
IncidentLoadSubscriber(c, ok) ==
    LET call == calls[c]
    IN
    /\ call.kind = "incident" /\ call.pc = "loadSubscriber"
    /\ Resume(c, IF ~ok THEN Raise(call, StoreError)
                 ELSE [call EXCEPT !.pc = "queue"])
    /\ UNCHANGED <<queue, now, subscriber, subscription, lastId>>
    /\ RouterFrame

\* queueNotification lines 86-96 and lines 225-237: the row is inserted and
\* counted and the loop goes on, or R.store raises and so does the function
IncidentQueue(c, ok, t) ==
    LET call == calls[c]
        bean == Head(call.rest)
        message == [to |-> subscriber[bean.subscriber_id].email,
                    subject |-> SubjectOf(call.type), html |-> "<p>"]
    IN
    /\ call.kind = "incident" /\ call.pc = "queue"
    /\ IF ok
       THEN /\ queueNotification(bean.subscriber_id, call.type, message, t)
            /\ Resume(c, Loop([call EXCEPT !.queuedCount =
                                  IF call.type = "incident_created"
                                  THEN @ + 1 ELSE @],
                              Tail(call.rest)))
       ELSE /\ Resume(c, Raise(call, StoreError))
            /\ UNCHANGED <<queue, now>>
    /\ UNCHANGED <<subscriber, subscription, lastId>>
    /\ RouterFrame

----------------------------------------------------------------------------
(* sendStatusChangeNotification(monitorId, monitorName, statusPageId, ...) *)

\* a query that takes the verified subscriptions of the page whatever their
\* notify_status_changes
GetAllForStatusChange_AnyFlag(statusPageId) ==
    ById({s \in subscription :
            /\ s.status_page_id = statusPageId
            /\ s.verified
            /\ s.subscriber_id \in DOMAIN subscriber})

\* R.getAll of lines 427-435: the subscriptions of the page that are verified
\* and have notify_status_changes, joined with their subscriber; by id
GetAllForStatusChange(statusPageId) ==
    ById({s \in subscription :
            /\ s.status_page_id = statusPageId
            /\ s.notify_status_changes
            /\ s.verified
            /\ s.subscriber_id \in DOMAIN subscriber})

\* the loop of lines 444-482 goes on with the beans left, or the function
\* returns (line 484)
LoopAll(call, beans) ==
    IF beans = <<>> THEN Return([call EXCEPT !.rest = <<>>])
    ELSE [call EXCEPT !.rest = beans, !.pc = "loadSubscriber"]

\* lines 395-415: the call runs up to await R.load("status_page", ...)
CallSendStatusChangeNotification(statusPageId) ==
    /\ calls' = Append(calls,
                  [kind |-> "status_change", type |-> "status_change",
                   pc |-> "loadPage",
                   incidentId |-> NULL, statusPageId |-> statusPageId,
                   rest |-> <<>>, queuedCount |-> 0, result |-> "none",
                   error |-> NoError])
    /\ UNCHANGED <<queue, now, subscriber, subscription, lastId>>
    /\ RouterFrame

\* lines 415-420: the status page, or "Status page not found"; then up to
\* await setting("primaryBaseURL")
StatusLoadPage(c, ok) ==
    LET call == calls[c]
    IN
    /\ call.kind = "status_change" /\ call.pc = "loadPage"
    /\ Resume(c, IF ~ok THEN Raise(call, StoreError)
                 ELSE IF call.statusPageId \notin StatusPageIds
                 THEN Raise(call, "Status page not found")
                 ELSE [call EXCEPT !.pc = "setting"])
    /\ UNCHANGED <<queue, now, subscriber, subscription, lastId>>
    /\ RouterFrame

\* lines 420-427: without a base URL the function returns; with one it runs
\* up to await R.getAll(...)
StatusSetting(c, ok) ==
    LET call == calls[c]
    IN
    /\ call.kind = "status_change" /\ call.pc = "setting"
    /\ Resume(c, IF ~ok THEN Raise(call, StoreError)
                 ELSE IF primaryBaseURL = Unset THEN Return(call)
                 ELSE [call EXCEPT !.pc = "getAll"])
    /\ UNCHANGED <<queue, now, subscriber, subscription, lastId>>
    /\ RouterFrame

\* lines 427-446: the rows of the query; with none the function returns; else
\* the loop runs up to await R.load("subscriber", ...) for the first row
StatusGetAll(c, ok) ==
    LET call == calls[c]
    IN
    /\ call.kind = "status_change" /\ call.pc = "getAll"
    /\ Resume(c, IF ~ok THEN Raise(call, StoreError)
                 ELSE LoopAll(call, GetAllForStatusChange(call.statusPageId)))
    /\ UNCHANGED <<queue, now, subscriber, subscription, lastId>>
    /\ RouterFrame

\* lines 446-475: the subscriber of the row, the message, up to await
\* R.store(queue) in queueNotification
StatusLoadSubscriber(c, ok) ==
    LET call == calls[c]
    IN
    /\ call.kind = "status_change" /\ call.pc = "loadSubscriber"
    /\ Resume(c, IF ~ok THEN Raise(call, StoreError)
                 ELSE [call EXCEPT !.pc = "queue"])
    /\ UNCHANGED <<queue, now, subscriber, subscription, lastId>>
    /\ RouterFrame

\* queueNotification lines 86-96 and lines 475-489: the row is inserted and
\* the loop goes on, or R.store raises and so does the function
StatusQueue(c, ok, t) ==
    LET call == calls[c]
        bean == Head(call.rest)
        message == [to |-> subscriber[bean.subscriber_id].email,
                    subject |-> SubjectOf(call.type), html |-> "<p>"]
    IN
    /\ call.kind = "status_change" /\ call.pc = "queue"
    /\ IF ok
       THEN /\ queueNotification(bean.subscriber_id, "status_change",
                                 message, t)
            /\ Resume(c, LoopAll(call, Tail(call.rest)))
       ELSE /\ Resume(c, Raise(call, StoreError))
            /\ UNCHANGED <<queue, now>>
    /\ UNCHANGED <<subscriber, subscription, lastId>>
    /\ RouterFrame

----------------------------------------------------------------------------
(* startQueueProcessor / stopQueueProcessor *)

startQueueProcessor(id) ==
    /\ id \notin timers
    /\ \A e \in 1..(id - 1) : e \in timers
    /\ CallProcessQueue
    /\ timers' = timers \cup {id}
    /\ queueInterval' = id
    /\ UNCHANGED <<queue, now, sendCount>>
    /\ UNCHANGED lifeVars

\* the setInterval callback
IntervalTick(id) ==
    /\ id \in timers
    /\ CallProcessQueue
    /\ UNCHANGED <<queue, now, queueInterval, timers, sendCount>>
    /\ UNCHANGED lifeVars

stopQueueProcessor ==
    /\ queueInterval # NULL
    /\ timers' = timers \ {queueInterval}
    /\ queueInterval' = NULL
    /\ UNCHANGED <<queue, now, drains, sendCount>>
    /\ UNCHANGED lifeVars

----------------------------------------------------------------------------
\* an empty queue and no processor
InitQueue ==
    /\ queue = <<>>
    /\ now = 0
    /\ queueInterval = NULL
    /\ timers = {}
    /\ drains = EmptyBag
    /\ sendCount = [i \in 1..MaxQueue |-> 0]

\* empty tables and no call
InitTables ==
    /\ subscriber = <<>>
    /\ subscription = {}
    /\ lastId = 0
    /\ calls = <<>>

Init ==
    /\ InitQueue
    /\ InitTables
    /\ primaryBaseURL = BaseURL
    /\ notification = <<>>

\* a composer or a handler calls queueNotification, and R.store inserts the
\* row
CallQueueNotification(subscriberId, type, message, t) ==
    /\ Len(queue) < EnqueueRows
    /\ queueNotification(subscriberId, type, message, t)
    /\ UNCHANGED processorVars
    /\ UNCHANGED lifeVars

\* a row whose data column does not parse: queueNotification writes none,
\* the column was damaged in the table
DamagedRow(t) ==
    /\ queue' = Append(queue,
                  [id |-> Len(queue) + 1, subscriber_id |-> 1,
                   notification_type |-> "incident_created",
                   subject |-> IncidentSubject,
                   data |-> "unparseable", status |-> "pending",
                   attempts |-> 0, last_error |-> NoError, sent_at |-> NoTime,
                   created_at |-> t])
    /\ now' = t

\* a caller enqueues one of `kinds` while fewer than `rows` rows exist
Enqueue(rows, kinds) ==
    /\ Len(queue) < rows
    /\ \E kind \in kinds, t \in Times :
           IF kind = "unparseable" THEN DamagedRow(t)
           ELSE queueNotification(1, "incident_created", PayloadOf(kind), t)
    /\ UNCHANGED <<queueInterval, timers, drains, sendCount>>
    /\ UNCHANGED lifeVars

\* no processQueue() call is in progress
NoDrain == drains = EmptyBag

(* Spec: the whole life of the rows, with every outcome of the transport   *)
(* and of the store, and timer callbacks arriving at any time.             *)
Next ==
    \/ Enqueue(LifeRows, DataKinds)
    \/ \E id \in TimerIds : startQueueProcessor(id)
    \/ \E id \in TimerIds : IntervalTick(id)
    \/ stopQueueProcessor
    \/ \E d \in Drains, ok \in BOOLEAN : Find(d, ok)
    \/ \E d \in Drains, h \in BOOLEAN, s \in BOOLEAN :
           ProcessItem(d, h, s)
    \/ \E d \in Drains, ok \in BOOLEAN : Store533(d, ok)
    \/ \E d \in Drains, ok \in BOOLEAN : Store545(d, ok)

Spec == Init /\ [][Next]_vars

(* SpecBatch: several rows in one batch; a timer callback arrives only     *)
(* after the previous processQueue() call has returned.                    *)
NextBatch ==
    \/ Enqueue(BatchRows, DataKinds)
    \/ \E id \in TimerIds :
           NoDrain /\ startQueueProcessor(id)
    \/ \E id \in TimerIds :
           NoDrain /\ IntervalTick(id)
    \/ stopQueueProcessor
    \/ \E d \in Drains, ok \in BOOLEAN : Find(d, ok)
    \/ \E d \in Drains, h \in BOOLEAN, s \in BOOLEAN :
           ProcessItem(d, h, s)
    \/ \E d \in Drains, ok \in BOOLEAN : Store533(d, ok)
    \/ \E d \in Drains, ok \in BOOLEAN : Store545(d, ok)

SpecBatch == Init /\ [][NextBatch]_vars

(* SpecFind: more rows than one batch takes, with a transport that does   *)
(* not raise and a store that does not fail; a timer callback arrives only *)
(* after the previous processQueue() call has returned.                    *)
NextFind ==
    \/ Enqueue(MaxQueue, {"valid", "nomessage"})
    \/ \E id \in TimerIds :
           NoDrain /\ startQueueProcessor(id)
    \/ \E id \in TimerIds :
           NoDrain /\ IntervalTick(id)
    \/ stopQueueProcessor
    \/ \E d \in Drains : Find(d, TRUE)
    \/ \E d \in Drains, h \in BOOLEAN :
           ProcessItem(d, h, TRUE)
    \/ \E d \in Drains : Store533(d, TRUE)

SpecFind == Init /\ [][NextFind]_vars

(* SpecLive: the processor is started and never stopped, the timer keeps   *)
(* ticking, every await of a processQueue() call is answered and the store *)
(* does not fail; the transport may be missing, return or raise, and more  *)
(* rows than one batch takes are enqueued; a timer callback arrives only   *)
(* after the previous processQueue() call has returned.                    *)
NextLive ==
    \/ Enqueue(MaxQueue, {"valid", "unparseable"})
    \/ \E id \in TimerIds : NoDrain /\ startQueueProcessor(id)
    \/ \E id \in TimerIds : NoDrain /\ IntervalTick(id)
    \/ \E d \in Drains : Find(d, TRUE)
    \/ \E d \in Drains, h \in BOOLEAN, s \in BOOLEAN :
           ProcessItem(d, h, s)
    \/ \E d \in Drains : Store533(d, TRUE)
    \/ \E d \in Drains : Store545(d, TRUE)

\* startQueueProcessor is called, setInterval goes on calling back (lines
\* 558-566), and each await of processQueue is resumed
Fairness ==
    /\ WF_vars(\E id \in TimerIds : NoDrain /\ startQueueProcessor(id))
    /\ WF_vars(\E id \in TimerIds : NoDrain /\ IntervalTick(id))
    /\ WF_vars(\E d \in Drains : Find(d, TRUE))
    /\ WF_vars(\E d \in Drains, h \in BOOLEAN, s \in BOOLEAN : ProcessItem(d, h, s))
    /\ WF_vars(\E d \in Drains : Store533(d, TRUE))
    /\ WF_vars(\E d \in Drains : Store545(d, TRUE))

SpecLive == Init /\ [][NextLive]_vars /\ Fairness

\* no handler is running
Idle == \A c \in DOMAIN calls : calls[c].pc = "done"

\* the base URL is set, or not
InitRouter ==
    /\ InitQueue
    /\ InitTables
    /\ primaryBaseURL \in {BaseURL, Unset}
    /\ notification = <<>>

(* SpecRouter: subscribe, verify and unsubscribe requests, each handled to  *)
(* its end before the next arrives, over a store that answers; the         *)
(* confirmation may fail to be queued.                                     *)
NextRouter ==
    \/ /\ Idle /\ Len(calls) < MaxRequests
       /\ \E email \in Emails \cup BadEmails, slug \in Slugs \cup {"nopage"},
             componentId \in {NULL, 1} :
              CallSubscribe(email, slug, componentId,
                            "undefined", "undefined", "undefined")
    \/ /\ Idle /\ Len(calls) < MaxRequests
       /\ \E token \in 0..MaxRequests : CallVerify(token)
    \/ /\ Idle /\ Len(calls) < MaxRequests
       /\ \E slug \in Slugs, token \in 0..MaxSubscribers :
              CallUnsubscribe(slug, token)
    \/ \E c \in DOMAIN calls : SubscribeSlugToID(c, TRUE)
    \/ \E c \in DOMAIN calls : SubscribeFindByEmail(c, TRUE)
    \/ \E c \in DOMAIN calls : SubscribeStoreSubscriber(c, TRUE)
    \/ \E c \in DOMAIN calls : SubscribeExists(c, TRUE)
    \/ \E c \in DOMAIN calls : SubscribeStoreSubscription(c, TRUE)
    \/ \E c \in DOMAIN calls, ok \in BOOLEAN : ConfirmationSetting(c, ok)
    \/ \E c \in DOMAIN calls, ok \in BOOLEAN, t \in Times :
           ConfirmationQueue(c, ok, t)
    \/ \E c \in DOMAIN calls : VerifyFind(c, TRUE)
    \/ \E c \in DOMAIN calls : VerifyStore(c, TRUE)
    \/ \E c \in DOMAIN calls : VerifyLoad(c, TRUE)
    \/ \E c \in DOMAIN calls : UnsubscribeFind(c, TRUE)
    \/ \E c \in DOMAIN calls : UnsubscribeGet(c, TRUE)
    \/ \E c \in DOMAIN calls, id \in 1..lastId : UnsubscribeTrash(c, id, TRUE)

SpecRouter == InitRouter /\ [][NextRouter]_vars

(* SpecRace: subscribe requests that arrive while others are handled, over *)
(* a store whose every operation may raise.                                *)
NextRace ==
    \/ /\ Len(calls) < RaceRequests
       /\ \E email \in Emails, slug \in Slugs, componentId \in {NULL, 1} :
              CallSubscribe(email, slug, componentId,
                            "undefined", "undefined", "undefined")
    \/ \E c \in DOMAIN calls, ok \in BOOLEAN : SubscribeSlugToID(c, ok)
    \/ \E c \in DOMAIN calls, ok \in BOOLEAN : SubscribeFindByEmail(c, ok)
    \/ \E c \in DOMAIN calls, ok \in BOOLEAN :
           SubscribeStoreSubscriber(c, ok)
    \/ \E c \in DOMAIN calls, ok \in BOOLEAN : SubscribeExists(c, ok)
    \/ \E c \in DOMAIN calls, ok \in BOOLEAN :
           SubscribeStoreSubscription(c, ok)
    \/ \E c \in DOMAIN calls, ok \in BOOLEAN : ConfirmationSetting(c, ok)
    \/ \E c \in DOMAIN calls, ok \in BOOLEAN, t \in Times :
           ConfirmationQueue(c, ok, t)

SpecRace == InitRouter /\ [][NextRace]_vars

\* the email address of the i-th of the subscribers of a full table
EmailOf(i) ==
    CASE i = 1 -> "a@x.com"
      [] i = 2 -> "b@x.com"
      [] i = 3 -> "c@x.com"
      [] i = 4 -> "d@x.com"
      [] i = 5 -> "e@x.com"
      [] OTHER -> "f@x.com"

(* SpecIncident: one call of sendIncidentNotification,                     *)
(* over every table of FanOut subscribers with one subscription each, on   *)
(* either page, verified or not, with notify_incidents or not; the base    *)
(* URL is set or not, and every store operation may raise.                 *)
InitIncident ==
    /\ InitQueue
    /\ calls = <<>>
    /\ notification = <<>>
    /\ primaryBaseURL \in {BaseURL, Unset}
    /\ lastId = FanOut
    /\ subscriber = [i \in 1..FanOut |->
                        [id |-> i, email |-> EmailOf(i),
                         unsubscribe_token |-> UnsubscribeToken(i)]]
    /\ \E f \in [1..FanOut ->
                    [page : StatusPageIds, verified : BOOLEAN,
                     notify : BOOLEAN]] :
          subscription =
              {[id |-> i, subscriber_id |-> i,
                status_page_id |-> f[i].page, component_id |-> NULL,
                notify_incidents |-> f[i].notify,
                notify_maintenance |-> TRUE,
                notify_status_changes |-> FALSE,
                verified |-> f[i].verified,
                verification_token |-> VerificationToken(i)] :
               i \in 1..FanOut}

NextIncident ==
    \/ /\ calls = <<>>
       /\ \E incidentId \in 0..3 : CallSendIncidentNotification(incidentId)
    \/ \E c \in DOMAIN calls, ok \in BOOLEAN : IncidentLoad(c, ok)
    \/ \E c \in DOMAIN calls, ok \in BOOLEAN : IncidentLoadPage(c, ok)
    \/ \E c \in DOMAIN calls, ok \in BOOLEAN : IncidentSetting(c, ok)
    \/ \E c \in DOMAIN calls, ok \in BOOLEAN :
           IncidentGetByStatusPage(c, ok)
    \/ \E c \in DOMAIN calls, ok \in BOOLEAN :
           IncidentLoadSubscriber(c, ok)
    \/ \E c \in DOMAIN calls, ok \in BOOLEAN, t \in Times :
           IncidentQueue(c, ok, t)

SpecIncident == InitIncident /\ [][NextIncident]_vars

\* the subscription rows of a table of ComposerRows rows: the first is of
\* subscriber 1, no two have the same subscriber, page and component
SubscriptionTables ==
    {{[id |-> i, subscriber_id |-> f[i].subscriber,
       status_page_id |-> f[i].page, component_id |-> f[i].component,
       notify_incidents |-> f[i].incidents,
       notify_maintenance |-> TRUE,
       notify_status_changes |-> f[i].changes,
       verified |-> f[i].verified,
       verification_token |-> VerificationToken(i)] : i \in 1..ComposerRows} :
     f \in {g \in [1..ComposerRows ->
                     [subscriber : SubscriberIds, page : StatusPageIds,
                      component : {NULL, 1}, incidents : BOOLEAN,
                      changes : BOOLEAN, verified : BOOLEAN]] :
               /\ g[1].subscriber = 1
               /\ \A i, j \in 1..ComposerRows :
                     (/\ g[i].subscriber = g[j].subscriber
                      /\ g[i].page = g[j].page
                      /\ g[i].component = g[j].component) => i = j}}

(* SpecComposer: one event, composed by one of the four event composers,  *)
(* over every table of ComposerRows subscriptions of MaxSubscribers        *)
(* subscribers; the base URL is set or not, and every store operation may  *)
(* raise.                                                                  *)
InitComposer ==
    /\ InitQueue
    /\ calls = <<>>
    /\ notification = <<>>
    /\ primaryBaseURL \in {BaseURL, Unset}
    /\ lastId = ComposerRows
    /\ subscriber = [i \in SubscriberIds |->
                        [id |-> i, email |-> EmailOf(i),
                         unsubscribe_token |-> UnsubscribeToken(i)]]
    /\ subscription \in SubscriptionTables

NextComposer ==
    \/ /\ calls = <<>>
       /\ \E incidentId \in 0..3 : CallSendIncidentNotification(incidentId)
    \/ /\ calls = <<>>
       /\ \E incidentId \in 0..3 :
              CallSendIncidentUpdateNotification(incidentId)
    \/ /\ calls = <<>>
       /\ \E incidentId \in 0..3 :
              CallSendIncidentResolvedNotification(incidentId)
    \/ /\ calls = <<>>
       /\ \E statusPageId \in 0..2 :
              CallSendStatusChangeNotification(statusPageId)
    \/ \E c \in DOMAIN calls, ok \in BOOLEAN : IncidentLoad(c, ok)
    \/ \E c \in DOMAIN calls, ok \in BOOLEAN : IncidentLoadPage(c, ok)
    \/ \E c \in DOMAIN calls, ok \in BOOLEAN : IncidentSetting(c, ok)
    \/ \E c \in DOMAIN calls, ok \in BOOLEAN :
           IncidentGetByStatusPage(c, ok)
    \/ \E c \in DOMAIN calls, ok \in BOOLEAN :
           IncidentLoadSubscriber(c, ok)
    \/ \E c \in DOMAIN calls, ok \in BOOLEAN, t \in Times :
           IncidentQueue(c, ok, t)
    \/ \E c \in DOMAIN calls, ok \in BOOLEAN : StatusLoadPage(c, ok)
    \/ \E c \in DOMAIN calls, ok \in BOOLEAN : StatusSetting(c, ok)
    \/ \E c \in DOMAIN calls, ok \in BOOLEAN : StatusGetAll(c, ok)
    \/ \E c \in DOMAIN calls, ok \in BOOLEAN : StatusLoadSubscriber(c, ok)
    \/ \E c \in DOMAIN calls, ok \in BOOLEAN, t \in Times :
           StatusQueue(c, ok, t)

SpecComposer == InitComposer /\ [][NextComposer]_vars

(* SpecCount: subscriber-count requests, one after the other, over every   *)
(* table of ComposerRows subscriptions; every store operation may raise.   *)
NextCount ==
    \/ /\ Idle /\ Len(calls) < CountRequests
       /\ \E slug \in Slugs \cup {"nopage"} : CallSubscriberCount(slug)
    \/ \E c \in DOMAIN calls, ok \in BOOLEAN : CountSlugToID(c, ok)
    \/ \E c \in DOMAIN calls, ok \in BOOLEAN : CountRows(c, ok)

SpecCount == InitComposer /\ [][NextCount]_vars

\* the queue rows that AuditRequests calls can write: a call writes one row,
\* or one for each subscription, and each call adds one of these at most
AuditRows == AuditRequests * (AuditRequests + 1)

(* SpecAudit: the writers of the queue side by side. One verified          *)
(* subscriber of page 1 exists; subscribe, verify and unsubscribe requests *)
(* and the four event composers are called one after the other, and the    *)
(* processor drains the queue at any time between their steps, over a      *)
(* store that answers and a transport that may be missing or raise.        *)
InitAudit ==
    /\ queue = <<>>
    /\ now = 0
    /\ queueInterval = NULL
    /\ timers = {}
    /\ drains = EmptyBag
    /\ sendCount = [i \in 1..AuditRows |-> 0]
    /\ calls = <<>>
    /\ notification = <<>>
    /\ primaryBaseURL = BaseURL
    /\ lastId = 1
    /\ subscriber = <<[id |-> 1, email |-> EmailOf(1),
                       unsubscribe_token |-> UnsubscribeToken(1)]>>
    /\ subscription =
          {[id |-> 1, subscriber_id |-> 1, status_page_id |-> 1,
            component_id |-> NULL, notify_incidents |-> TRUE,
            notify_maintenance |-> TRUE, notify_status_changes |-> TRUE,
            verified |-> TRUE, verification_token |-> VerificationToken(1)]}

NextAudit ==
    \/ /\ Idle /\ Len(calls) < AuditRequests
       /\ \E email \in Emails :
              CallSubscribe(email, "p1", NULL, "undefined", "undefined", "true")
    \/ /\ Idle /\ Len(calls) < AuditRequests
       /\ \E token \in 1..AuditRequests : CallVerify(token)
    \/ /\ Idle /\ Len(calls) < AuditRequests
       /\ CallUnsubscribe("p1", UnsubscribeToken(1))
    \/ /\ Idle /\ Len(calls) < AuditRequests
       /\ CallSendIncidentNotification(1)
    \/ /\ Idle /\ Len(calls) < AuditRequests
       /\ CallSendIncidentUpdateNotification(1)
    \/ /\ Idle /\ Len(calls) < AuditRequests
       /\ CallSendIncidentResolvedNotification(1)
    \/ /\ Idle /\ Len(calls) < AuditRequests
       /\ CallSendStatusChangeNotification(1)
    \/ \E c \in DOMAIN calls : SubscribeSlugToID(c, TRUE)
    \/ \E c \in DOMAIN calls : SubscribeFindByEmail(c, TRUE)
    \/ \E c \in DOMAIN calls : SubscribeStoreSubscriber(c, TRUE)
    \/ \E c \in DOMAIN calls : SubscribeExists(c, TRUE)
    \/ \E c \in DOMAIN calls : SubscribeStoreSubscription(c, TRUE)
    \/ \E c \in DOMAIN calls : ConfirmationSetting(c, TRUE)
    \/ \E c \in DOMAIN calls, t \in Times : ConfirmationQueue(c, TRUE, t)
    \/ \E c \in DOMAIN calls : VerifyFind(c, TRUE)
    \/ \E c \in DOMAIN calls : VerifyStore(c, TRUE)
    \/ \E c \in DOMAIN calls : VerifyLoad(c, TRUE)
    \/ \E c \in DOMAIN calls : UnsubscribeFind(c, TRUE)
    \/ \E c \in DOMAIN calls : UnsubscribeGet(c, TRUE)
    \/ \E c \in DOMAIN calls, id \in 1..lastId : UnsubscribeTrash(c, id, TRUE)
    \/ \E c \in DOMAIN calls : IncidentLoad(c, TRUE)
    \/ \E c \in DOMAIN calls : IncidentLoadPage(c, TRUE)
    \/ \E c \in DOMAIN calls : IncidentSetting(c, TRUE)
    \/ \E c \in DOMAIN calls : IncidentGetByStatusPage(c, TRUE)
    \/ \E c \in DOMAIN calls : IncidentLoadSubscriber(c, TRUE)
    \/ \E c \in DOMAIN calls, t \in Times : IncidentQueue(c, TRUE, t)
    \/ \E c \in DOMAIN calls : StatusLoadPage(c, TRUE)
    \/ \E c \in DOMAIN calls : StatusSetting(c, TRUE)
    \/ \E c \in DOMAIN calls : StatusGetAll(c, TRUE)
    \/ \E c \in DOMAIN calls : StatusLoadSubscriber(c, TRUE)
    \/ \E c \in DOMAIN calls, t \in Times : StatusQueue(c, TRUE, t)
    \/ \E id \in TimerIds : NoDrain /\ startQueueProcessor(id)
    \/ \E id \in TimerIds : NoDrain /\ IntervalTick(id)
    \/ \E d \in Drains : Find(d, TRUE)
    \/ \E d \in Drains, h \in BOOLEAN, s \in BOOLEAN : ProcessItem(d, h, s)
    \/ \E d \in Drains : Store533(d, TRUE)
    \/ \E d \in Drains : Store545(d, TRUE)

SpecAudit == InitAudit /\ [][NextAudit]_vars

(* SpecHistory: from empty tables, subscribe, verify and unsubscribe        *)
(* requests and events of the two pages, one after the other; the calls     *)
(* record what was verified. The store answers, except in the verify        *)
(* handler, where each await may raise.                                     *)
NextHistory ==
    \/ /\ Idle /\ Len(calls) < HistoryRequests
       /\ \E slug \in Slugs :
              CallSubscribe("a@x.com", slug, NULL, "undefined", "undefined", "true")
    \/ /\ Idle /\ Len(calls) < HistoryRequests
       /\ \E token \in 1..MaxSubscribers : CallVerify(token)
    \/ /\ Idle /\ Len(calls) < HistoryRequests
       /\ CallUnsubscribe("p1", UnsubscribeToken(1))
    \/ /\ Idle /\ Len(calls) < HistoryRequests
       /\ \E incidentId \in 1..2 : CallSendIncidentNotification(incidentId)
    \/ /\ Idle /\ Len(calls) < HistoryRequests
       /\ \E incidentId \in 1..2 :
              CallSendIncidentUpdateNotification(incidentId)
    \/ /\ Idle /\ Len(calls) < HistoryRequests
       /\ \E incidentId \in 1..2 :
              CallSendIncidentResolvedNotification(incidentId)
    \/ /\ Idle /\ Len(calls) < HistoryRequests
       /\ \E statusPageId \in StatusPageIds :
              CallSendStatusChangeNotification(statusPageId)
    \/ \E c \in DOMAIN calls : SubscribeSlugToID(c, TRUE)
    \/ \E c \in DOMAIN calls : SubscribeFindByEmail(c, TRUE)
    \/ \E c \in DOMAIN calls : SubscribeStoreSubscriber(c, TRUE)
    \/ \E c \in DOMAIN calls : SubscribeExists(c, TRUE)
    \/ \E c \in DOMAIN calls : SubscribeStoreSubscription(c, TRUE)
    \/ \E c \in DOMAIN calls : ConfirmationSetting(c, TRUE)
    \/ \E c \in DOMAIN calls, t \in Times : ConfirmationQueue(c, TRUE, t)
    \/ \E c \in DOMAIN calls, ok \in BOOLEAN : VerifyFind(c, ok)
    \/ \E c \in DOMAIN calls, ok \in BOOLEAN : VerifyStore(c, ok)
    \/ \E c \in DOMAIN calls, ok \in BOOLEAN : VerifyLoad(c, ok)
    \/ \E c \in DOMAIN calls : UnsubscribeFind(c, TRUE)
    \/ \E c \in DOMAIN calls : UnsubscribeGet(c, TRUE)
    \/ \E c \in DOMAIN calls, id \in 1..lastId : UnsubscribeTrash(c, id, TRUE)
    \/ \E c \in DOMAIN calls : IncidentLoad(c, TRUE)
    \/ \E c \in DOMAIN calls : IncidentLoadPage(c, TRUE)
    \/ \E c \in DOMAIN calls : IncidentSetting(c, TRUE)
    \/ \E c \in DOMAIN calls : IncidentGetByStatusPage(c, TRUE)
    \/ \E c \in DOMAIN calls : IncidentLoadSubscriber(c, TRUE)
    \/ \E c \in DOMAIN calls, t \in Times : IncidentQueue(c, TRUE, t)
    \/ \E c \in DOMAIN calls : StatusLoadPage(c, TRUE)
    \/ \E c \in DOMAIN calls : StatusSetting(c, TRUE)
    \/ \E c \in DOMAIN calls : StatusGetAll(c, TRUE)
    \/ \E c \in DOMAIN calls : StatusLoadSubscriber(c, TRUE)
    \/ \E c \in DOMAIN calls, t \in Times : StatusQueue(c, TRUE, t)

\* empty tables, no call, a queue of up to AuditRows rows
InitHistory ==
    /\ InitTables
    /\ queue = <<>>
    /\ now = 0
    /\ queueInterval = NULL
    /\ timers = {}
    /\ drains = EmptyBag
    /\ sendCount = [i \in 1..AuditRows |-> 0]
    /\ primaryBaseURL = BaseURL
    /\ notification = <<>>

SpecHistory == InitHistory /\ [][NextHistory]_vars

(* SpecEnqueue: calls of queueNotification with every shape of message.    *)
NextEnqueue ==
    \E subscriberId \in SubscriberIds,
       type \in {"subscription_confirmation", "incident_created"},
       message \in Messages, t \in Times :
        CallQueueNotification(subscriberId, type, message, t)

SpecEnqueue == Init /\ [][NextEnqueue]_vars

(* SpecSend: calls of sendEmail over every table of configured channels,   *)
(* with queries and a transport that may raise.                            *)
NotificationTables ==
    UNION {{[i \in 1..n |-> [id |-> i, is_default |-> f[i].d,
                             config |-> f[i].c]] :
               f \in [1..n -> [d : BOOLEAN, c : ConfigKinds]]} :
           n \in 0..MaxChannels}

InitSend ==
    /\ InitQueue
    /\ InitTables
    /\ primaryBaseURL = BaseURL
    /\ notification \in NotificationTables

NextSend ==
    \/ CallSendEmail
    \/ \E f1 \in BOOLEAN, f2 \in BOOLEAN : CallGetDefaultNotification(f1, f2)
    \/ \E c \in DOMAIN calls, f1 \in BOOLEAN, f2 \in BOOLEAN :
           SelectTransport(c, f1, f2)
    \/ \E c \in DOMAIN calls, ok \in BOOLEAN : NotificationSend(c, ok)

SpecSend == InitSend /\ [][NextSend]_vars

(* SpecDeliver: the life of a row over every notification table, with the *)
(* transport the table gives; a timer callback arrives only after the     *)
(* previous processQueue() call has returned.                             *)
InitDeliver ==
    /\ InitQueue
    /\ InitTables
    /\ primaryBaseURL = BaseURL
    /\ notification \in NotificationTables

NextDeliver ==
    \/ Enqueue(LifeRows, DataKinds)
    \/ \E id \in TimerIds :
           NoDrain /\ startQueueProcessor(id)
    \/ \E id \in TimerIds :
           NoDrain /\ IntervalTick(id)
    \/ stopQueueProcessor
    \/ \E d \in Drains, ok \in BOOLEAN : Find(d, ok)
    \/ \E d \in Drains, f1 \in BOOLEAN, f2 \in BOOLEAN, s \in BOOLEAN :
           ProcessItemFromTable(d, f1, f2, s)
    \/ \E d \in Drains, ok \in BOOLEAN : Store533(d, ok)
    \/ \E d \in Drains, ok \in BOOLEAN : Store545(d, ok)

SpecDeliver == InitDeliver /\ [][NextDeliver]_vars

TypeOK ==
    /\ now \in 0..MaxTime
    /\ queueInterval \in {NULL} \cup TimerIds
    /\ timers \subseteq TimerIds
    /\ BagCardinality(drains) <= MaxDrains
    /\ \A d \in Drains :
          d.pc \in {"find", "process", "store533", "store545"}

----------------------------------------------------------------------------
(* The claims *)

\* the bean of the call d, as R.find returned it
Selected(d) == Head(d.batch)

\* C1: when processQueue handles a pending row selected with attempts = n and
\* sendEmail raises, the bean goes to the store of line 545 with
\* attempts = n + 1 and last_error = the raised message, failed when n + 1
\* reaches 5 and pending otherwise; and when that store succeeds the row holds
\* these values.
C1_SendRaiseCountsAttempt ==
    [][\A d \in Drains :
          LET sel  == Selected(d)
              n    == sel.attempts + 1
              bean == [sel EXCEPT !.attempts = n,
                                  !.last_error = SendError,
                                  !.status = IF n >= 5 THEN "failed"
                                             ELSE "pending"]
          IN  /\ \A h, s \in BOOLEAN :
                    (ProcessItem(d, h, s) /\ sel.data = "valid"
                                          /\ sendEmail(h, s) = "raise")
                    => drains' = Continue(d, [d EXCEPT !.pc = "store545",
                                                       !.item = bean])
              /\ (Store545(d, TRUE) /\ d.item.last_error = SendError)
                    => /\ queue'[sel.id].attempts = n
                       /\ queue'[sel.id].last_error = SendError
                       /\ queue'[sel.id].status = bean.status
      ]_vars

\* a row has failed at its fifth raising send
C1_Witness ==
    \E i \in DOMAIN queue :
        /\ queue[i].attempts = 5
        /\ queue[i].status = "failed"
        /\ queue[i].last_error = SendError

\* C2: when processQueue handles a pending row whose payload has no message
\* with to, subject and html, sendEmail is not called for it, the bean goes to
\* the store of line 533 failed with last_error "Invalid message format" and
\* the attempts it was selected with; and when that store succeeds the row
\* holds these values.
C2_InvalidFailsAtOnce ==
    [][\A d \in Drains :
          LET sel  == Selected(d)
              bean == [sel EXCEPT !.status = "failed",
                                  !.last_error = "Invalid message format"]
          IN  /\ \A h, s \in BOOLEAN :
                    (ProcessItem(d, h, s) /\ sel.data = "nomessage")
                    => /\ sendCount' = sendCount
                       /\ drains' = Continue(d, [d EXCEPT !.pc = "store533",
                                                          !.item = bean])
              /\ (Store533(d, TRUE) /\ sel.data = "nomessage")
                    => /\ queue'[sel.id].status = "failed"
                       /\ queue'[sel.id].last_error = "Invalid message format"
                       /\ queue'[sel.id].attempts = sel.attempts
      ]_vars

\* a row without a message has failed, with no attempt and no send
C2_Witness ==
    \E i \in DOMAIN queue :
        /\ queue[i].data = "nomessage"
        /\ queue[i].status = "failed"
        /\ queue[i].last_error = InvalidFormat
        /\ queue[i].attempts = 0
        /\ sendCount[i] = 0

\* C3: when processQueue handles a pending row with a well-formed message and
\* sendEmail returns true or false, the bean goes to the store of line 533 sent,
\* with sent_at set and the attempts it was selected with; and when that store
\* succeeds the row holds these values.
C3_ReturnedSendIsSent ==
    [][\A d \in Drains :
          LET sel == Selected(d)
          IN  /\ \A h, s \in BOOLEAN :
                    (ProcessItem(d, h, s) /\ sel.data = "valid"
                                          /\ sendEmail(h, s) \in {"true", "false"})
                    => \E t \in 0..MaxTime :
                          drains' = Continue(d, [d EXCEPT
                              !.pc = "store533",
                              !.item = [sel EXCEPT !.status = "sent",
                                                   !.sent_at = t]])
              /\ (Store533(d, TRUE) /\ sel.data = "valid")
                    => /\ queue'[sel.id].status = "sent"
                       /\ queue'[sel.id].sent_at # NoTime
                       /\ queue'[sel.id].attempts = sel.attempts
      ]_vars

\* a row was sent at its first send, with no attempt counted
C3_Witness ==
    \E i \in DOMAIN queue :
        /\ queue[i].data = "valid"
        /\ queue[i].status = "sent"
        /\ queue[i].sent_at # NoTime
        /\ queue[i].attempts = 0
        /\ sendCount[i] = 1

\* C4: over the whole life of a row, under any interleaving of processQueue
\* calls, sendEmail is called for it at most 5 times.
C4_AtMostFiveSends ==
    \A i \in DOMAIN queue : sendCount[i] <= 5

\* C5: once the stored status of a row is sent or failed, no later step
\* changes it.
C5_TerminalStatusStays ==
    [][\A i \in DOMAIN queue :
          queue[i].status \in {"sent", "failed"}
          => queue'[i].status = queue[i].status
      ]_vars

\* the processQueue() call d returns in this step
Returns(d) ==
    /\ BagCardinality(drains') < BagCardinality(drains)
    /\ CopiesIn(d, drains') < CopiesIn(d, drains)

\* C6: a failure while one row is processed does not abort the batch: a
\* processQueue() call that has selected rows returns only from the last row
\* of its batch.
C6_BatchRunsToItsEnd ==
    [][\A d \in Drains :
          (d.pc # "find" /\ Returns(d)) => Len(d.batch) = 1
      ]_vars

\* C7: at every moment at most one recurring drain trigger exists.
C7_OneIntervalTimer ==
    Cardinality(timers) <= 1

\* C8: no two processQueue executions are in progress at the same time.
C8_DrainsNeverOverlap ==
    BagCardinality(drains) <= 1

\* C9: stopQueueProcessor leaves the timer handle null, and while the handle
\* is null no interval callback starts a drain.
C9_StopEndsTheTicks ==
    [][/\ stopQueueProcessor => queueInterval' = NULL
       /\ queueInterval = NULL => \A id \in TimerIds : ~IntervalTick(id)
      ]_vars

\* the processQueue() call that this step moves on from R.find
Found(d, n) ==
    /\ d.pc = "find"
    /\ n.pc = "process"
    /\ CopiesIn(d, drains') < CopiesIn(d, drains)
    /\ CopiesIn(n, drains') > CopiesIn(n, drains)

\* C10: the rows a drain takes from R.find are rows that are pending with
\* attempts < 5, each once and as stored, at most the limit of the query, and
\* none of them is newer than a pending row with attempts < 5 left behind.
C10_SelectsOldestPending ==
    [][\A d \in Drains : \A n \in BagToSet(drains') :
          Found(d, n) =>
            LET b   == n.batch
                ids == {b[i].id : i \in DOMAIN b}
                E   == {j \in DOMAIN queue : /\ queue[j].status = "pending"
                                             /\ queue[j].attempts < 5}
            IN  /\ Len(b) <= BatchLimit
                /\ Cardinality(ids) = Len(b)
                /\ \A i \in DOMAIN b : b[i].id \in E /\ b[i] = queue[b[i].id]
                /\ \A i \in DOMAIN b : \A j \in E \ ids :
                       b[i].created_at <= queue[j].created_at
      ]_vars

\* a drain holds a full batch and left a newer pending row behind
C10_Witness ==
    \E d \in Drains :
        /\ d.pc = "process"
        /\ Len(d.batch) = BatchLimit
        /\ \E j \in Eligible(queue) \ {d.batch[i].id : i \in DOMAIN d.batch} :
               queue[j].created_at > d.batch[1].created_at

\* C11: a drain that finds zero pending rows performs no store write and no
\* send: when no row is pending with attempts < 5, the processQueue() call
\* returns from its query, and the step changes no row and calls no sendEmail.
C11_EmptyDrainWritesNothing ==
    [][\A d \in Drains : \A ok \in BOOLEAN :
          (/\ Find(d, ok)
           /\ \A i \in DOMAIN queue :
                 ~(queue[i].status = "pending" /\ queue[i].attempts < 5))
          => /\ drains' = drains (-) SetToBag({d})
             /\ queue' = queue
             /\ sendCount' = sendCount
      ]_vars

\* a drain is at its query while the only rows are rows that are over
C11_Witness ==
    \E d \in Drains :
        /\ d.pc = "find"
        /\ queue # <<>>
        /\ \A i \in DOMAIN queue : queue[i].status \in {"sent", "failed"}

\* C12: sendEmail has exactly three outcomes: false with no call of the
\* transport when no transport is selected; true after exactly one successful
\* Notification.send when one is selected; and the transport's error, raised
\* when Notification.send raises.
C12_ThreeOutcomes ==
    \A c \in DOMAIN calls :
        (calls[c].kind = "sendEmail" /\ calls[c].pc = "done")
        => \/ /\ calls[c].bean = NoNotification
              /\ calls[c].result = "false"
              /\ calls[c].sends = 0
           \/ /\ calls[c].bean # NoNotification
              /\ calls[c].result = "true"
              /\ calls[c].sends = 1
           \/ /\ calls[c].bean # NoNotification
              /\ calls[c].result = "raise"
              /\ calls[c].sends = 1
              /\ calls[c].error = SendError

\* C13: queueNotification inserts exactly one new row, with the given
\* subscriber id and type, status pending, attempts 0 and created_at set to
\* the time read, whose subject is the subject of the payload's message when
\* it has one and "Status Page Notification" otherwise; the rows before it
\* stay as they are.
C13_QueuesOnePendingRow ==
    [][\A subscriberId \in SubscriberIds, type \in NotificationTypes,
          message \in Messages, t \in 0..MaxTime :
          CallQueueNotification(subscriberId, type, message, t)
          => LET new == queue'[Len(queue')]
             IN  /\ Len(queue') = Len(queue) + 1
                 /\ SubSeq(queue', 1, Len(queue)) = queue
                 /\ new.subscriber_id = subscriberId
                 /\ new.notification_type = type
                 /\ new.status = "pending"
                 /\ new.attempts = 0
                 /\ new.created_at = t
                 /\ new.created_at # NoTime
                 /\ new.sent_at = NoTime
                 /\ message.subject \in {ConfirmSubject, IncidentSubject}
                       => new.subject = message.subject
                 /\ message.subject = ""
                       => new.subject = "Status Page Notification"
      ]_vars

\* a second row is queued with the fallback subject, after a row that keeps
\* the subject of its message
C13_Witness ==
    /\ Len(queue) = 2
    /\ queue[1].subject = ConfirmSubject
    /\ queue[2].subject = FallbackSubject
    /\ queue[2].subscriber_id = 2
    /\ queue[2].notification_type = "subscription_confirmation"
    /\ queue[2].status = "pending"

\* a subscription of the email, page and component of the subscribe call is
\* in the table
TripleHeld(call) ==
    \E i \in DOMAIN subscriber : \E s \in subscription :
        /\ subscriber[i].email = call.email
        /\ s.subscriber_id = subscriber[i].id
        /\ s.status_page_id = SlugToID(call.slug)
        /\ s.component_id = call.componentId

\* the call c ends in this step
Completes(c) == calls[c].pc # "done" /\ calls'[c].pc = "done"

\* C14: a subscribe call for an email, page and component that already have
\* a subscription (stored by an earlier call) creates no subscription row,
\* enqueues no confirmation, and answers alreadySubscribed = true.
C14_SecondSubscribeChangesNothing ==
    [][\A c \in DOMAIN calls :
          (/\ calls[c].kind = "subscribe"
           /\ calls[c].pc # "done"
           /\ calls[c].subscription = NULL
           /\ TripleHeld(calls[c]))
          => /\ subscription' = subscription
             /\ subscriber' = subscriber
             /\ queue' = queue
             /\ Completes(c) => /\ calls'[c].status = 200
                                /\ calls'[c].body = "alreadySubscribed"
      ]_vars

\* a second subscribe was answered "already subscribed", and there is still
\* one subscription and one confirmation
C14_Witness ==
    /\ \E c \in DOMAIN calls :
          calls[c].pc = "done" /\ calls[c].body = "alreadySubscribed"
    /\ Cardinality(subscription) = 1
    /\ lastId = 1
    /\ Len(queue) = 1

\* C15: in every reachable state, interleaved subscribe requests included,
\* there is at most one subscription row per (subscriber, page, component).
C15_OneSubscriptionPerTriple ==
    \A s1, s2 \in subscription :
        (/\ s1.subscriber_id = s2.subscriber_id
         /\ s1.status_page_id = s2.status_page_id
         /\ s1.component_id = s2.component_id)
        => s1 = s2

EligibleFor(incidentId) ==
    {s \in subscription : /\ s.status_page_id = IncidentPage(incidentId)
                          /\ s.verified = TRUE
                          /\ s.notify_incidents = TRUE}

\* the subscription has an incident_created row in the queue
Notified(s) ==
    \E i \in DOMAIN queue :
        /\ queue[i].subscriber_id = s.subscriber_id
        /\ queue[i].notification_type = "incident_created"

\* C17: sendIncidentNotification enqueues an incident_created row for a
\* subscription of the incident's status page if and only if the subscription
\* is verified and has notify_incidents: when it has returned, the rows
\* enqueued are as many as the eligible subscriptions.
C17_EnqueuesIffEligible ==
    \A c \in DOMAIN calls :
        (/\ calls[c].kind = "incident"
         /\ calls[c].pc = "done"
         /\ calls[c].result = "returned")
        => /\ \A s \in subscription :
                 Notified(s) <=> s \in EligibleFor(calls[c].incidentId)
           /\ Len(queue) = Cardinality(EligibleFor(calls[c].incidentId))

\* C17, amended: when the primary base URL is set, sendIncidentNotification
\* enqueues an incident_created row for a subscription of the incident's
\* status page if and only if the subscription is verified and has
\* notify_incidents, so when it has returned the rows enqueued are as many as
\* the eligible subscriptions; when the base URL is unset it returns with
\* nothing enqueued; and at no time is there a row for a subscription that is
\* not eligible, or two for one.
C17_EnqueuesIffEligibleWithBaseURL ==
    \A c \in DOMAIN calls :
        calls[c].kind = "incident"
        => /\ \A s \in subscription :
                 Notified(s) => s \in EligibleFor(calls[c].incidentId)
           /\ Len(queue) <= Cardinality(EligibleFor(calls[c].incidentId))
           /\ Len(queue) = calls[c].queuedCount
           /\ (calls[c].pc = "done" /\ calls[c].result = "returned")
                 => IF primaryBaseURL # ""
                    THEN /\ \A s \in EligibleFor(calls[c].incidentId) :
                               Notified(s)
                         /\ Len(queue) =
                               Cardinality(EligibleFor(calls[c].incidentId))
                    ELSE queue = <<>>

\* an incident on a page with 3 verified subscriptions that have
\* notify_incidents and 1 that is not verified has queued exactly 3 rows
C17_Witness ==
    \E c \in DOMAIN calls :
        /\ calls[c].kind = "incident"
        /\ calls[c].pc = "done"
        /\ calls[c].result = "returned"
        /\ Cardinality(EligibleFor(calls[c].incidentId)) = 3
        /\ \E s \in subscription :
              /\ s.status_page_id = calls[c].statusPageId
              /\ ~s.verified /\ s.notify_incidents
        /\ Len(queue) = 3
        /\ \A i \in DOMAIN queue :
              queue[i].notification_type = "incident_created"

\* the pending subscription_confirmation rows of the subscriber in the queue q
Confirmations(q, subscriberId) ==
    {i \in DOMAIN q :
        /\ q[i].subscriber_id = subscriberId
        /\ q[i].notification_type = "subscription_confirmation"
        /\ q[i].status = "pending"}

\* C18: after a successful first-time subscribe for an email on a page, and
\* before any drain runs, exactly one pending subscription_confirmation row
\* exists for that subscriber.
C18_OneConfirmationQueued ==
    [][\A c \in DOMAIN calls :
          (/\ calls[c].kind = "subscribe"
           /\ Completes(c)
           /\ calls'[c].body = "needsVerification"
           /\ Cardinality({s \in subscription :
                  /\ s.subscriber_id = calls[c].subscriber
                  /\ s.status_page_id = calls[c].statusPageId}) = 1)
          => Cardinality(Confirmations(queue', calls[c].subscriber)) = 1
      ]_vars

\* C18, amended: a subscribe that has stored a new subscription answers
\* needsVerification = true, and before any drain runs it has added exactly one
\* pending subscription_confirmation row for that subscriber (the only one, for
\* a subscriber who had none) when the primary base URL is set and the queue
\* write succeeds (the handler logs "queued"), and none when the base URL is
\* unset or the write raises (the handler logs the failure).
C18_OneConfirmationIfBaseURL ==
    [][\A c \in DOMAIN calls :
          (/\ calls[c].kind = "subscribe"
           /\ Completes(c)
           /\ calls[c].subscription # NULL)
          => LET before == Confirmations(queue, calls[c].subscriber)
                 after  == Confirmations(queue', calls[c].subscriber)
             IN  /\ calls'[c].status = 200
                 /\ calls'[c].body = "needsVerification"
                 /\ calls'[c].log \in {"Verification email queued",
                                      "Failed to queue verification email"}
                 /\ calls'[c].log = "Verification email queued"
                      => /\ primaryBaseURL # ""
                         /\ Len(queue') = Len(queue) + 1
                         /\ after = before \cup {Len(queue')}
                         /\ SubSeq(queue', 1, Len(queue)) = queue
                 /\ calls'[c].log = "Failed to queue verification email"
                      => queue' = queue
                 /\ primaryBaseURL = "" => queue' = queue
      ]_vars

\* a first subscribe has queued its one confirmation
C18_Witness ==
    /\ \E c \in DOMAIN calls :
          /\ calls[c].pc = "done"
          /\ calls[c].body = "needsVerification"
          /\ calls[c].log = "Verification email queued"
    /\ Len(subscriber) = 1
    /\ Cardinality(subscription) = 1
    /\ Confirmations(queue, 1) = {1}

\* C19: when unsubscribe with a valid token completes, no subscription row of
\* that subscriber remains on any status page, whatever the slug of the URL.
C19_UnsubscribeRemovesAll ==
    [][\A c \in DOMAIN calls :
          (/\ calls[c].kind = "unsubscribe"
           /\ Completes(c)
           /\ calls[c].subscriber # NULL)
          => /\ calls'[c].status = 200
             /\ \A s \in subscription' :
                    s.subscriber_id # calls[c].subscriber
      ]_vars

\* an unsubscribe is deleting the subscriptions a subscriber has on two pages
C19_Witness ==
    \E c \in DOMAIN calls :
        /\ calls[c].kind = "unsubscribe"
        /\ calls[c].pc = "trash"
        /\ Cardinality(calls[c].rest) = 1
        /\ lastId = 2
        /\ Len(subscriber) = 1
        /\ \E s \in subscription :
              /\ s.id \in calls[c].rest
              /\ s.status_page_id # SlugToID(calls[c].slug)

\* C20: verify is idempotent: a verify call with the token of a subscription,
\* verified already or not, finds it, leaves it verified with its token, and
\* answers success.
C20_VerifyIsIdempotent ==
    [][\A c \in DOMAIN calls :
          (/\ calls[c].kind = "verify"
           /\ calls[c].pc # "done"
           /\ \E s \in subscription : s.verification_token = calls[c].token)
          => /\ Completes(c) => calls'[c].status = 200
             /\ calls[c].pc = "verify"
                  => \E s \in subscription' :
                        /\ s.verification_token = calls[c].token
                        /\ s.verified
             /\ \A s \in subscription :
                  s.verified => \E n \in subscription' :
                                   /\ n.id = s.id
                                   /\ n.verified
                                   /\ n.verification_token =
                                          s.verification_token
      ]_vars

\* a second verify call with the token of a verified subscription is about
\* to be answered
C20_Witness ==
    /\ lastId = 1
    /\ \E s \in subscription : s.verified
    /\ Len(calls) = 3
    /\ calls[2].kind = "verify" /\ calls[2].status = 200
    /\ calls[3].kind = "verify" /\ calls[3].pc = "loadSubscriber"

\* the first of the rows of the notification table that are marked default,
\* and the first of those whose config has type smtp
FirstOf(rows) == CHOOSE i \in rows : \A j \in rows : i <= j
MarkedDefault == {i \in DOMAIN notification : notification[i].is_default}
SmtpTyped == {i \in DOMAIN notification : notification[i].config = "smtp"}

\* the channel the claim C21 names for the notification table
Expected ==
    IF MarkedDefault # {} THEN notification[FirstOf(MarkedDefault)]
    ELSE IF SmtpTyped # {} THEN notification[FirstOf(SmtpTyped)]
    ELSE NoNotification

\* C21: getDefaultNotification returns the channel marked default when one
\* exists; otherwise the first channel in scan order whose type is smtp; and
\* null only when no channel is marked default and none is smtp-typed.
C21_DefaultThenFirstSmtp ==
    \A c \in DOMAIN calls :
        calls[c].kind = "getDefaultNotification"
        => calls[c].bean = Expected

\* C21, amended: when neither a store lookup nor the parsing of a scanned
\* channel's configuration fails, getDefaultNotification returns the channel
\* marked default when one exists; otherwise the first channel in scan order
\* whose type is smtp; and null only when no channel is marked default and
\* none is smtp-typed. When one of them fails it returns null.
C21_DefaultThenFirstSmtpUnlessFailure ==
    \A c \in DOMAIN calls :
        calls[c].kind = "getDefaultNotification"
        => IF calls[c].log = "none"
           THEN calls[c].bean = Expected
           ELSE calls[c].bean = NoNotification

\* no channel is marked default and the second row is the first of type
\* smtp: it is the one returned
C21_Witness ==
    \E c \in DOMAIN calls :
        /\ calls[c].kind = "getDefaultNotification"
        /\ calls[c].log = "none"
        /\ MarkedDefault = {}
        /\ Len(notification) = 2
        /\ notification[1].config = "telegram"
        /\ calls[c].bean = notification[2]

\* C22: getDefaultNotification never raises: when the store lookup or the
\* parsing of a channel's configuration fails, it returns null.
C22_NeverRaises ==
    \A c \in DOMAIN calls :
        calls[c].kind = "getDefaultNotification"
        => /\ calls[c].result = "returned"
           /\ calls[c].log = GetDefaultFailed
                => calls[c].bean = NoNotification

\* the scan met a configuration that does not parse, ahead of a channel of
\* type smtp, and null was returned
C22_Witness ==
    \E c \in DOMAIN calls :
        /\ calls[c].kind = "getDefaultNotification"
        /\ calls[c].result = "returned"
        /\ calls[c].log = GetDefaultFailed
        /\ calls[c].bean = NoNotification
        /\ MarkedDefault = {}
        /\ Len(notification) = 2
        /\ notification[1].config = "unparseable"
        /\ notification[2].config = "smtp"

\* C23: the queue is at-least-once: a row reaches status sent only after the
\* transport's send has completed successfully for its message at least once;
\* so over a notification table that gives no transport, where no send can
\* complete, no row is sent.
C23_SentOnlyAfterTransportSend ==
    \A i \in DOMAIN queue :
        queue[i].status = "sent" => Expected # NoNotification

\* C23, amended: a row reaches status sent only after sendEmail has been
\* called for its message and has returned without raising (the transport's
\* send completed, or there was no transport and it returned false): the row
\* turns sent in the table only by the store of a bean that lines 520-527
\* marked sent after that call.
C23_SentOnlyAfterSendEmailReturned ==
    [][\A i \in DOMAIN queue :
          (queue[i].status # "sent" /\ queue'[i].status = "sent")
          => /\ sendCount[i] >= 1
             /\ \E d \in Drains :
                   /\ d.pc \in {"store533", "store545"}
                   /\ d.item.id = i
                   /\ d.item.status = "sent"
                   /\ d.item.sent_at # NoTime
      ]_vars

\* a row is sent after one sendEmail call, over a table with a default
\* smtp channel
C23_Witness ==
    /\ Len(queue) = 1
    /\ queue[1].status = "sent"
    /\ sendCount[1] = 1
    /\ MarkedDefault # {}
    /\ Expected.config = "smtp"

\* the calls of the four event composers
Composers == {c \in DOMAIN calls : calls[c].kind \in {"incident", "status_change"}}

\* the incident of the call is not in the incident table
IncidentMissing(call) ==
    call.kind = "incident" /\ IncidentPage(call.incidentId) = NULL

\* the status page of the incident, or of the status change, is not in the
\* status_page table
PageMissing(call) ==
    IF call.kind = "incident"
    THEN /\ IncidentPage(call.incidentId) # NULL
         /\ IncidentPage(call.incidentId) \notin StatusPageIds
    ELSE call.statusPageId \notin StatusPageIds

\* C24: each event composer fails with a not-found error and enqueues nothing
\* when its incident or the owning status page is missing: it never gets to
\* read the base URL, and unless the load itself raises its error is
\* "Incident not found", or "Status page not found".
C24_MissingEntityIsNotFound ==
    \A c \in Composers :
        (IncidentMissing(calls[c]) \/ PageMissing(calls[c]))
        => /\ queue = <<>>
           /\ calls[c].pc \in {"loadIncident", "loadPage", "done"}
           /\ calls[c].pc = "done"
                => /\ calls[c].result = "raised"
                   /\ calls[c].error \in
                         {IF IncidentMissing(calls[c])
                          THEN "Incident not found"
                          ELSE "Status page not found", StoreError}

\* an incident update for an incident whose status page is gone has failed
\* with "Status page not found", with subscriptions in the table
C24_Witness ==
    \E c \in Composers :
        /\ calls[c].type = "incident_update"
        /\ PageMissing(calls[c])
        /\ calls[c].pc = "done"
        /\ calls[c].result = "raised"
        /\ calls[c].error = "Status page not found"
        /\ queue = <<>>

\* C25: when the primary base URL is unset, each event composer returns
\* without raising (a store read that raises set aside) and enqueues no
\* record.
C25_UnsetBaseURLReturns ==
    primaryBaseURL = Unset
    => /\ queue = <<>>
       /\ \A c \in Composers :
             calls[c].pc = "done"
             => \/ calls[c].result = "returned"
                \/ calls[c].error = StoreError

\* C25, amended: when the primary base URL is unset, each event composer
\* that has loaded its incident and its status page returns without raising
\* unless a store read raises, and in every case it enqueues no record: no
\* call gets past the reading of the setting.
C25_UnsetBaseURLSkips ==
    primaryBaseURL = Unset
    => /\ queue = <<>>
       /\ \A c \in Composers :
             /\ calls[c].pc \in {"loadIncident", "loadPage", "setting", "done"}
             /\ (/\ calls[c].pc = "done"
                 /\ ~IncidentMissing(calls[c])
                 /\ ~PageMissing(calls[c]))
                  => \/ calls[c].result = "returned"
                     \/ calls[c].error = StoreError

\* with the base URL unset, a status change on a page with a verified
\* subscription that has notify_status_changes has returned, nothing queued
C25_Witness ==
    /\ primaryBaseURL = Unset
    /\ queue = <<>>
    /\ \E c \in Composers :
          /\ calls[c].kind = "status_change"
          /\ calls[c].pc = "done"
          /\ calls[c].result = "returned"
          /\ GetAllForStatusChange(calls[c].statusPageId) # <<>>

\* C29: for one event a subscriber gets at most one queued record, even with
\* several eligible subscriptions (different components) on the page.
C29_OneRecordPerRecipient ==
    \A i, j \in DOMAIN queue :
        (/\ queue[i].subscriber_id = queue[j].subscriber_id
         /\ queue[i].notification_type = queue[j].notification_type)
        => i = j

\* C26: sendSubscriptionConfirmation raises and enqueues nothing when the
\* primary base URL is unset: the subscribe call that reads the unset setting
\* ends in the catch block of its handler, which logs the error, and the
\* queue is as it was.
C26_ConfirmationRaisesWithoutBaseURL ==
    [][\A c \in DOMAIN calls :
          (/\ calls[c].kind = "subscribe"
           /\ calls[c].pc = "setting"
           /\ calls'[c].pc # "setting"
           /\ primaryBaseURL = Unset)
          => /\ queue' = queue
             /\ calls'[c].pc = "done"
             /\ calls'[c].log = "Failed to queue verification email"
      ]_vars

\* with the base URL unset, the confirmation of a new subscription has
\* raised and nothing is queued
C26_Witness ==
    /\ primaryBaseURL = Unset
    /\ queue = <<>>
    /\ lastId = 1
    /\ \E c \in DOMAIN calls :
          /\ calls[c].kind = "subscribe"
          /\ calls[c].pc = "done"
          /\ calls[c].log = "Failed to queue verification email"

\* C27: a failure to compose or enqueue the confirmation email does not fail
\* the subscribe call: the new unverified subscription row is still stored
\* and the answer is ok with needsVerification = true.
C27_ConfirmationFailureIsSwallowed ==
    [][\A c \in DOMAIN calls :
          (/\ calls[c].kind = "subscribe"
           /\ Completes(c)
           /\ calls'[c].log = "Failed to queue verification email")
          => /\ calls'[c].status = 200
             /\ calls'[c].body = "needsVerification"
             /\ subscription' = subscription
             /\ \E s \in subscription' :
                   /\ s.id = calls[c].subscription
                   /\ s.subscriber_id = calls[c].subscriber
                   /\ s.status_page_id = calls[c].statusPageId
                   /\ ~s.verified
      ]_vars

\* with the base URL set, the queue write of a confirmation has raised: the
\* subscription is stored and the answer is needsVerification
C27_Witness ==
    /\ primaryBaseURL = BaseURL
    /\ queue = <<>>
    /\ Cardinality(subscription) = 1
    /\ \A s \in subscription : ~s.verified
    /\ \E c \in DOMAIN calls :
          /\ calls[c].kind = "subscribe"
          /\ calls[c].pc = "done"
          /\ calls[c].status = 200
          /\ calls[c].body = "needsVerification"
          /\ calls[c].log = "Failed to queue verification email"

\* C28: rejected lifecycle requests leave the store unchanged: no step of a
\* subscribe answered 400 or 404, or of a verify or unsubscribe answered 404,
\* from its arrival to its answer, creates, modifies or deletes a subscriber,
\* subscription or queue row.
C28_RejectedRequestsChangeNothing ==
    [][\A c \in DOMAIN calls' :
          (\/ c \notin DOMAIN calls
           \/ /\ c \in DOMAIN calls
              /\ calls[c].pc # "done"
              /\ calls'[c].pc = "done"
              /\ calls'[c].status \in {400, 404})
          => /\ subscriber' = subscriber
             /\ subscription' = subscription
             /\ queue' = queue
             /\ lastId' = lastId
      ]_vars

\* after a subscription was stored and its confirmation queued, a subscribe
\* with an unknown slug and a verify with an unknown token were rejected, and
\* the one subscription is still unverified and the one queue row in place
C28_Witness ==
    /\ Len(calls) = 3
    /\ calls[1].kind = "subscribe" /\ calls[1].body = "needsVerification"
    /\ calls[2].kind = "subscribe" /\ calls[2].status = 404
    /\ calls[3].kind = "verify" /\ calls[3].status = 404
    /\ Cardinality(subscription) = 1
    /\ \A s \in subscription : ~s.verified
    /\ Len(queue) = 1

\* C30: queue records are never deleted and only the drain mutates them:
\* no step of queueNotification, of an event composer or of the subscribe,
\* verify and unsubscribe handlers removes a row or changes a row that
\* exists; it only appends rows or leaves the queue as it is. A row that
\* changes is the item a processQueue call stores (lines 533, 545).
C30_OnlyTheDrainMutatesRows ==
    [][/\ Len(queue') >= Len(queue)
       /\ \A i \in DOMAIN queue :
             /\ queue'[i].id = queue[i].id
             /\ queue'[i] # queue[i]
                => /\ calls' = calls
                   /\ \E d \in Drains :
                         /\ d.pc \in {"store533", "store545"}
                         /\ d.item.id = queue[i].id
                         /\ queue'[i] = d.item
      ]_vars

\* the row of an incident was drained and marked sent, and the unsubscribe
\* that then deleted the subscription of its recipient left it in place
C30_Witness ==
    /\ Len(calls) = 2
    /\ calls[1].kind = "incident" /\ calls[1].pc = "done"
    /\ calls[2].kind = "unsubscribe" /\ calls[2].pc = "done"
    /\ calls[2].status = 200
    /\ subscription = {}
    /\ Len(queue) = 1
    /\ queue[1].subscriber_id = 1
    /\ queue[1].status = "sent"

\* the subscription rows of the page of a slug, subscriber by subscriber
RECURSIVE RowsOfPage(_, _)
RowsOfPage(ids, page) ==
    IF ids = {} THEN 0
    ELSE LET i == CHOOSE j \in ids : TRUE
         IN  Cardinality({s \in subscription :
                              /\ s.subscriber_id = i
                              /\ s.status_page_id = page})
             + RowsOfPage(ids \ {i}, page)

\* C31: subscriber-count for a known slug returns the number of subscription
\* rows of that status page, verified or not, a subscriber counted once for
\* each of its rows: the request is never answered 404, and unless a store
\* operation raises (answer 500) it is answered 200 with that number.
C31_CountsSubscriptionRows ==
    [][\A c \in DOMAIN calls :
          (/\ calls[c].kind = "count"
           /\ Completes(c)
           /\ SlugToID(calls[c].slug) # NULL)
          => \/ calls'[c].status = 500
             \/ /\ calls'[c].status = 200
                /\ calls'[c].count =
                      RowsOfPage(DOMAIN subscriber, SlugToID(calls[c].slug))
      ]_vars

\* subscriber 1 has two subscriptions of page 1, one of them unverified, and
\* the count of page 1 was answered: 2
C31_Witness ==
    /\ \A s \in subscription : s.subscriber_id = 1 /\ s.status_page_id = 1
    /\ \E s \in subscription : ~s.verified
    /\ \E s \in subscription : s.verified
    /\ \E c \in DOMAIN calls :
          /\ calls[c].kind = "count"
          /\ calls[c].pc = "done"
          /\ calls[c].slug = "p1"
          /\ calls[c].status = 200
          /\ calls[c].count = 2

\* the status page of the event of a composer call
PageOf(call) ==
    IF call.kind = "status_change" THEN call.statusPageId
    ELSE IncidentPage(call.incidentId)

\* the notify flag of the subscription s that matches the event type
FlagFor(s, type) ==
    IF type = "status_change" THEN s.notify_status_changes
    ELSE s.notify_incidents

\* the subscriptions of the subscriber i that are eligible for the event of
\* the call, and the rows of the event's type queued for the subscriber
EligibleRows(call, i) ==
    {s \in subscription : /\ s.subscriber_id = i
                          /\ s.status_page_id = PageOf(call)
                          /\ s.verified
                          /\ FlagFor(s, call.type)}

QueuedFor(call, i) ==
    {k \in DOMAIN queue : /\ queue[k].subscriber_id = i
                          /\ queue[k].notification_type = call.type}

\* the composers of incident updates, resolutions and status changes
LaterEvents == {"incident_update", "incident_resolved", "status_change"}

\* C32: sendIncidentUpdateNotification and sendIncidentResolvedNotification
\* enqueue for a subscription of the page if and only if it is verified and
\* has notify_incidents, and sendStatusChangeNotification if and only if it
\* is verified and has notify_status_changes: when the call has returned,
\* each subscriber has as many rows of the event's type as eligible
\* subscriptions of the page.
C32_EnqueuesIffEligible ==
    \A c \in Composers :
        (/\ calls[c].type \in LaterEvents
         /\ calls[c].pc = "done"
         /\ calls[c].result = "returned")
        => \A i \in DOMAIN subscriber :
              Cardinality(QueuedFor(calls[c], i))
                 = Cardinality(EligibleRows(calls[c], i))

\* C32, amended: the same when the primary base URL is set; when it is unset
\* the call returns with nothing enqueued; and at no time has a subscriber
\* more rows of the event's type than eligible subscriptions of the page.
C32_EnqueuesIffEligibleWithBaseURL ==
    \A c \in Composers :
        calls[c].type \in LaterEvents
        => /\ \A i \in DOMAIN subscriber :
                 Cardinality(QueuedFor(calls[c], i))
                    <= Cardinality(EligibleRows(calls[c], i))
           /\ \A k \in DOMAIN queue :
                 queue[k].notification_type = calls[c].type
           /\ (calls[c].pc = "done" /\ calls[c].result = "returned")
                 => IF primaryBaseURL # Unset
                    THEN \A i \in DOMAIN subscriber :
                            Cardinality(QueuedFor(calls[c], i))
                               = Cardinality(EligibleRows(calls[c], i))
                    ELSE queue = <<>>

\* a status change of a page with two verified subscriptions, one with
\* notify_status_changes and one with notify_incidents only, has returned
\* with one row, for the subscriber of the first
C32_Witness ==
    \E c \in DOMAIN calls :
        /\ calls[c].kind = "status_change"
        /\ calls[c].pc = "done"
        /\ calls[c].result = "returned"
        /\ \A s \in subscription :
              s.verified /\ s.status_page_id = calls[c].statusPageId
        /\ \E s, t \in subscription :
              /\ s.subscriber_id = 1 /\ t.subscriber_id = 2
              /\ s.notify_status_changes /\ ~s.notify_incidents
              /\ ~t.notify_status_changes /\ t.notify_incidents
        /\ Len(queue) = 1
        /\ queue[1].subscriber_id = 1
        /\ queue[1].notification_type = "status_change"

\* C33: a structurally invalid payload is never retried: the first
\* processQueue call that stores a row whose data column is invalid, or does
\* not parse at all, stores it failed; and a row is stored pending only
\* with the error of a send that raised.
C33_InvalidIsNeverRetried ==
    [][\A d \in Drains :
          (/\ d.pc \in {"store533", "store545"}
           /\ drains' # drains
           /\ queue'[d.item.id] # queue[d.item.id])
          => /\ d.item.data # "valid"
                => queue'[d.item.id].status = "failed"
             /\ queue'[d.item.id].status = "pending"
                => queue'[d.item.id].last_error = SendError
      ]_vars

\* C34: every enqueued record eventually reaches a terminal state: with the
\* processor started and not stopped, timer ticks that keep occurring and
\* store writes that succeed, each row of the queue is eventually sent or
\* failed, with more pending rows than the batch limit and whatever the
\* transport does.
C34_EveryRowEndsTerminal ==
    \A i \in 1..MaxQueue :
        (i \in DOMAIN queue)
           ~> (i \in DOMAIN queue /\ queue[i].status \in {"sent", "failed"})

\* more rows than a batch takes were enqueued, one failed after
\* MaxAttempts sends that raised, and all are terminal
C34_Witness ==
    /\ Len(queue) > BatchLimit
    /\ \A i \in DOMAIN queue : queue[i].status \in {"sent", "failed"}
    /\ \E i \in DOMAIN queue :
          /\ queue[i].status = "failed"
          /\ queue[i].attempts = MaxAttempts
          /\ queue[i].last_error = SendError

\* the places where a processQueue call in progress waits
DrainPcs == {"find", "process", "store533", "store545"}

\* C35: processQueue never propagates an error to its caller: whether the
\* query of the pending rows fails, a send raises or a store write fails,
\* the write of the per-record catch block included, a call is either still
\* at one of its awaits or has returned; none has ended with an error.
C35_DrainNeverRaises ==
    \A d \in Drains : d.pc \in DrainPcs

\* the one row was sent, both writes failed, and the call has returned: the
\* row is as it was enqueued
C35_Witness ==
    /\ drains = EmptyBag
    /\ timers # {}
    /\ Len(queue) = 1
    /\ queue[1].status = "pending"
    /\ queue[1].attempts = 0
    /\ queue[1].data = "valid"
    /\ sendCount[1] = 1

\* C36: in every reachable state each stored queue row is field-consistent:
\* 0 <= attempts <= 5; a pending row has attempts < 5, so that the query
\* still selects it; a sent row has sent_at set; a failed row has last_error
\* set.
C36_RowsAreConsistent ==
    \A i \in DOMAIN queue :
        /\ queue[i].attempts \in 0..MaxAttempts
        /\ queue[i].status = "pending" => queue[i].attempts < AttemptsLimit
        /\ queue[i].status = "sent" => queue[i].sent_at # NoTime
        /\ queue[i].status = "failed" => queue[i].last_error # NoError

\* a row has failed at its fifth send that raised
C36_Witness ==
    \E i \in DOMAIN queue :
        /\ queue[i].status = "failed"
        /\ queue[i].attempts = MaxAttempts
        /\ queue[i].last_error = SendError
        /\ queue[i].sent_at = NoTime

\* C37: a row whose message sendEmail accepted (it returned without raising)
\* in a processQueue call is never stored failed by that call, even when the
\* write of the sent status fails and the catch block runs: the item that
\* goes from the write of line 533 to the write of line 545 was accepted, and
\* the row the catch block stores is not failed.
C37_AcceptedIsNeverFailed ==
    [][\A d \in Drains :
          (/\ d.pc = "store545"
           /\ d.item.sent_at # NoTime
           /\ drains' # drains
           /\ queue'[d.item.id] # queue[d.item.id])
          => queue'[d.item.id].status # "failed"
      ]_vars

\* C38: a subscription is created with verified = false and its verified
\* flag is monotonic: while the row exists the flag never goes from true to
\* false, and a flag changes only in the store of the verify call that found
\* that subscription by its token, so verifying one subscription changes no
\* other one's flag.
C38_VerifiedIsMonotonic ==
    [][\A t \in subscription' :
          IF \E s \in subscription : s.id = t.id
          THEN \A s \in subscription :
                  s.id = t.id
                  => /\ s.verified => t.verified
                     /\ s.verified # t.verified
                        => \E c \in DOMAIN calls :
                              /\ calls[c].kind = "verify"
                              /\ calls[c].pc = "verify"
                              /\ calls[c].subscription = t.id
          ELSE ~t.verified
      ]_vars

\* of two subscriptions of one subscriber the first was verified and the
\* second is still unverified
C38_Witness ==
    /\ Len(calls) = MaxRequests
    /\ \A c \in DOMAIN calls : calls[c].pc = "done"
    /\ calls[MaxRequests].kind = "verify"
    /\ calls[MaxRequests].status = 200
    /\ \E s, t \in subscription :
          /\ s.id = 1 /\ s.verified
          /\ t.id = 2 /\ ~t.verified
          /\ s.subscriber_id = t.subscriber_id

\* C39: unsubscribe deletes only subscription rows: no step of an
\* unsubscribe call changes the subscriber table (the row and its
\* unsubscribe token stay) or a queue row; a processQueue call sends the
\* pending row of a subscriber who has no subscription left like any other;
\* and a subscribe that stores a subscription for an email that has a
\* subscriber leaves the subscriber table as it is and stores a new row, with
\* an id no row had before, unverified.
C39_UnsubscribeDeletesSubscriptionsOnly ==
    [][/\ \A c \in DOMAIN calls :
             (calls[c].kind = "unsubscribe" /\ calls'[c] # calls[c])
             => /\ subscriber' = subscriber
                /\ queue' = queue
                /\ subscription' \subseteq subscription
       /\ \A d \in Drains :
             (/\ d.pc = "process"
              /\ drains' # drains
              /\ d.item.data = "valid"
              /\ GetBySubscriber(d.item.subscriber_id) = {})
             => sendCount'[d.item.id] = Min(sendCount[d.item.id] + 1, MaxSends)
       /\ \A c \in DOMAIN calls :
             (/\ calls[c].kind = "subscribe"
              /\ calls[c].pc = "storeSubscription"
              /\ subscription' # subscription)
             => /\ subscriber' = subscriber
                /\ \E t \in subscription' :
                      /\ subscription' = subscription \cup {t}
                      /\ t.id > lastId
                      /\ t.subscriber_id = FindByEmail(calls[c].email)
                      /\ ~t.verified
      ]_vars

\* the subscriber unsubscribed and subscribed again with the same email: the
\* subscriber row is the one there was, with its token, and the subscription
\* is a new unverified row
C39_Witness ==
    /\ Len(calls) = 2
    /\ calls[1].kind = "unsubscribe" /\ calls[1].pc = "done"
    /\ calls[1].status = 200
    /\ calls[2].kind = "subscribe" /\ calls[2].pc = "done"
    /\ calls[2].body = "needsVerification"
    /\ Len(subscriber) = 1
    /\ subscriber[1].unsubscribe_token = UnsubscribeToken(1)
    /\ Cardinality(subscription) = 1
    /\ \A s \in subscription :
          s.id = 2 /\ s.subscriber_id = 1 /\ ~s.verified

\* the event types, and the row a composer step has just appended
EventTypes == {"incident_created", "incident_update", "incident_resolved", "status_change"}

\* C40: no event notification precedes verification: a queue row of type
\* incident_created, incident_update, incident_resolved or status_change is
\* enqueued for a subscriber only after a verify call has succeeded (was
\* answered with the page "Email Verified") for a subscription of that
\* subscriber on the event's status page.
C40_NoEventBeforeVerifySucceeded ==
    [][\A c \in Composers :
          (/\ calls[c].pc = "queue"
           /\ Len(queue') > Len(queue))
          => /\ queue'[Len(queue')].notification_type \in EventTypes
             /\ \E v \in DOMAIN calls :
                   /\ calls[v].kind = "verify"
                   /\ calls[v].pc = "done"
                   /\ calls[v].status = 200
                   /\ calls[v].subscriber = queue'[Len(queue')].subscriber_id
                   /\ calls[v].statusPageId = PageOf(calls[c])
      ]_vars

\* C40, amended: such a row is enqueued only after subscription.verify() has
\* returned in a verify call for a subscription of that subscriber on the
\* event's status page, whatever that call then answered.
C40_NoEventBeforeVerifyStored ==
    [][\A c \in Composers :
          (/\ calls[c].pc = "queue"
           /\ Len(queue') > Len(queue))
          => /\ queue'[Len(queue')].notification_type \in EventTypes
             /\ \E v \in DOMAIN calls :
                   /\ calls[v].kind = "verify"
                   /\ calls[v].pc = "done"
                   /\ calls[v].stored
                   /\ calls[v].subscriber = queue'[Len(queue')].subscriber_id
                   /\ calls[v].statusPageId = PageOf(calls[c])
      ]_vars

\* the subscriber subscribed to page 1, verified, and an incident of page 1
\* has queued a row: the confirmation comes first in the queue, the event
\* second
C40_Witness ==
    /\ Len(calls) = 3
    /\ calls[1].kind = "subscribe" /\ calls[1].pc = "done"
    /\ calls[2].kind = "verify" /\ calls[2].pc = "done"
    /\ calls[2].status = 200
    /\ calls[3].kind = "incident" /\ calls[3].pc = "done"
    /\ Len(queue) = 2
    /\ queue[1].notification_type = "subscription_confirmation"
    /\ queue[2].notification_type = "incident_created"
    /\ queue[2].subscriber_id = calls[2].subscriber

====
